---------------------------- MODULE Spec2Model ----------------------------
(***************************************************************************)
(* PomPom projection mapping: a model of the calibration geometry, the     *)
(* shape classifier and the deterministic animation clock.                 *)
(*                                                                         *)
(* The module holds one specification per component:                       *)
(*   SpecClock       clock providers and their namespaced generators       *)
(*   SpecRenderLoops two render loops running the island-photos animation  *)
(*   SpecClassifier  detectIslands on a mask raster                        *)
(*   SpecHomography  the DLT solver, the inversion and drawPerspective     *)
(*   SpecHomographyClient  calls of calculateHomography                    *)
(*   SpecCalibration the capture-and-detect flow of the control page       *)
(* Variables of a component that a specification does not exercise are     *)
(* held at their idle value.                                               *)
(***************************************************************************)
EXTENDS Integers, Sequences, FiniteSets, TLC

VARIABLES
    \* animations/clock.ts: one entry per constructed clock provider
    providerClock,   \* the AnimationClock value the provider was built from
    prngCache,       \* provider -> namespace -> generator state, or NoPRNG
    drawn,           \* provider -> namespace -> numbers returned so far
    \* animations/island-photos.ts: one animation per render loop
    wallClock,       \* Date.now()
    sharedClock,     \* the AnimationClock value both loops hold
    islands,         \* state.islands, the same list in both loops
    running,         \* loop -> state.running
    animationFrameId,\* loop -> state.animationFrameId ("null" or "scheduled")
    lastElapsedTime, \* loop -> lastElapsedTime
    photos,          \* loop -> state.photos: island index -> IslandPhoto
    imagesLoaded,    \* loop -> state.imagesLoaded (the paths cached)
    pendingLoads,    \* loop -> addNewPhoto calls suspended in loadImage
    loopPrng,        \* loop -> the prngCache of the loop's clock provider
    decisions,       \* loop -> the random decisions taken so far, in order
    frames,          \* loop -> tick callbacks run so far
    advances,        \* time steps taken so far
    \* island-detection.ts: one call of detectIslands
    maskWidth,       \* maskCanvas.width
    maskHeight,      \* maskCanvas.height
    maskAlpha,       \* the alpha channel of the mask, pixel index -> 0 .. 255
    detection,       \* <<>> before the call, <<IslandDetectionResult>> after it
    \* mask-transform.ts and perspective-canvas.ts
    srcQuad,         \* the source quad of computeHomographyQuadToQuad
    dstQuad,         \* its destination quad, also the destQuad of drawPerspective
    quadHomography,  \* <<>>, or <<H>> once computeHomographyQuadToQuad has returned H
    quadInverse,     \* <<>>, or <<M>> once mask-transform's invertHomography has returned M
    perspectiveDraw, \* <<>>, or <<d>> once drawPerspective has run
    \* homography.ts: calls of calculateHomography
    homographyCall,  \* <<>>, or <<c>>: the arguments, requests and result of the last call
    callsMade,       \* calls made so far
    \* routes/control/+page.svelte: the calibration flow
    isCapturing,
    detectedMarkers,
    detectionError,  \* <<>> for null, <<message>> otherwise
    calibrationComplete,
    capturePhase,    \* where captureAndDetect is: "idle", "detecting", "solving", "storing"
    pendingCalibration, \* result and quad held by calculateAndStoreHomography while storing
    calibration,     \* the calibration held by the state server
    captureCount,    \* calls of captureAndDetect so far
    lastCapture,     \* <<>>, or <<c>>: what the last captureAndDetect detected and did
    \* mask-transform.ts and perspective-canvas.ts: the rasters of one warp
    warpSource,      \* the source raster: maskImage, or the sourceCanvas of drawPerspective
    warpQuad,        \* cameraQuad, or the destQuad of drawPerspective
    projectorMask,   \* <<>>, or <<r>> once transformMaskToProjector has returned r
    perspectiveCanvas,\* <<>>, or <<r>> once drawPerspective has drawn r
    \* island-detection.ts and projection-config.ts: the classification of one component
    shapeInput,      \* the bounding box, pixel count and raster size of the component
    islandInfo,      \* <<>>, or <<ComponentInfo>> once the island test has run
    pomPomReport,    \* <<>>, or <<r>> once the pom-pom test has run
    pomPomDetection, \* <<>>, or <<r>> once detectPomPoms has returned r
    \* state.svelte.ts, server/state.ts and the control page: going live
    clockCall,       \* one call of createAnimationClock: its arguments and, once made, its result
    serverState,     \* the AppState of the server: mode and animationClock
    pageState,       \* the _state of each control page
    requests,        \* the POST requests sent and not yet handled
    responses,       \* the responses sent to the pages and not yet received
    published,       \* the clocks the server has stored, in order
    goLives,         \* the number of startProjecting calls
    polls,           \* the number of fetchState calls
    \* routes/projection/+page.svelte: the projection page and its animation clock
    mountPhase,      \* how far onMount has run: init, loading or mounted
    projectionState, \* the animationClock of the _state of the projection page
    pollResponse,    \* <<>>, or <<r>>: the response to fetchState on its way to the page
    lastClockSequence,\* the variable of that name
    clockProvider,   \* <<>>, or <<clock>>: the provider built by the effect
    animationProvider,\* per animation: whether it is created, and the clock of the provider set on it
    effectPending,   \* whether the clock effect is scheduled to run
    \* prng.ts: one generator made by createPRNG
    generatorSeed,   \* the argument of createPRNG
    generatorState,  \* the variable state of the closure
    generatorDrawn,  \* the numbers returned so far, each as <<hi, lo>>
    \* sam.ts: one call of generateMasks
    segmentations,   \* the result or failure of segmentImage for each prompt handled so far
    generatedMasks,  \* the array results of generateMasks
    \* perspective-canvas.ts: the cached WebGL resources of drawPerspective
    glCache,         \* cachedGLCanvas, cachedGL, cachedProgram, cachedPositionBuffer, cachedTexture
    glCreated,       \* how many contexts, programs, buffers and textures have been created
    glDraws,         \* for each drawPerspective call so far, its size and what it drew with
    \* mask-transform.ts: the GPU objects of transformMaskToProjector
    transforms,      \* for each transformMaskToProjector call so far: what the browser answered, the path taken, the GPU objects created and those deleted
    \* animations/happy-birthday.ts: one running animation
    hbIslands,       \* state.islands
    letters,         \* state.letters: island index -> letter
    currentLetterIndex,\* state.currentLetterIndex, counted from 0
    phase,           \* state.phase
    sinceLastLetter, \* the time now of the animation minus state.lastLetterTime, kept up to LETTER_DURATION_MS
    sincePhaseStart, \* the time now of the animation minus state.phaseStartTime, kept up to END_PAUSE_MS
    lastAdded,       \* the letters added since the display was last emptied, the latest last; as many as there are islands are kept
    phaseTrail,      \* the phases entered, the latest last; four are kept
    islandChanges,   \* number of setIslands calls
    providerChanges, \* number of setClockProvider calls
    pauseClock,      \* clock time passed since the current pause began, kept up to END_PAUSE_MS; 0 while playing
    \* spotlight animation (spotlight.ts)
    spotPomPoms,     \* state.pomPoms: the pom-poms to light, in the order given
    assignedPomPoms, \* state.assignedPomPoms: indices that were given a spotlight
    internalSpotlights,\* state.internalSpotlights: the live spotlights, oldest first
    nextSpotlightId, \* state.nextSpotlightId
    spotRunning,     \* state.running of the spotlight animation
    spotFrameId,     \* state.animationFrameId: <<>> for null, <<id>> for a handle
    spotFrames,      \* frame callbacks of animate the browser holds
    lastNewSpotlightTime,\* state.lastNewSpotlightTime
    spotNow,         \* elapsed time of the clock provider, ms
    spotAdvances,    \* times the clock has advanced
    spotCallback,    \* what issued the last onUpdate callback
    lastPomPomState, \* lastPomPomState of the projection page
    \* projection page: play/pause of island photos (+page.svelte of /projection)
    sharedPlay,      \* appState.current: master toggle, islandPhotosPlaying, the wall mask's sub-masks
    pageEffects,     \* effects of the page scheduled to run
    lastSubMasksState,\* lastSubMasksState of the page
    islandImageLoads,\* island images the browser is loading, each with the components captured
    islandsMaskCanvas,\* islandsMaskCanvas: <<>> for null, <<image>> once loaded
    photosAnimIslands,\* islands given to the island-photos animation
    photosAnimRunning,\* running flag of the island-photos animation
    stateChanges,    \* shared states the page has received
    \* state.svelte.ts on one client, with the server behind /api/state
    serverHistory,   \* the states the server has had, the current one last
    syncRequests,    \* requests of the client the server has not handled
    syncResponses,   \* responses on their way to the client, each with the position of its state in serverHistory
    clientState,     \* _state of the client
    clientAt,        \* position in serverHistory of the state the client shows
    resolvedAt,      \* position of the newest state an updateState call has resolved with, 0 before any
    updatesSent,     \* updateState calls made
    pollsSent,       \* fetchState calls made
    \* island-photos.ts: when the photos were last cleared
    clearedAt,       \* elapsed time of the clock at the last stop() or setIslands(), <<>> before any
    \* server/state.ts: the state behind /api/state
    storedState,     \* state
    previousState,   \* state before the last setState call
    lastPartial,     \* the partial of the last setState call
    setStateCalls,   \* setState calls made
    \* projection page: the masks of the shared state and what the page renders
    sharedMasks,     \* appState.current.projection.masks
    maskEffectPending,\* the effect watching the masks is scheduled
    lastMaskState,   \* lastMaskState of the page
    maskDecodes,     \* Promise.all calls whose images are still decoding
    transformedMasks,\* transformedMasks: each canvas named by the image data it was decoded from
    renderedPairs,   \* activeMasks and activeAnimStates of the last render()
    maskChanges,     \* changes of the mask list so far
    \* start(), stop() and the frame loop of the island-photos, happy-birthday and spotlight animations
    loopRunning,     \* animation -> state.running
    loopFrameId,     \* animation -> state.animationFrameId, <<>> for null
    loopFrames,      \* animation -> the frame callbacks the browser holds for it
    loopCallback,    \* animation -> what issued its last onUpdate callback
    loopTicks        \* animation -> frame callbacks run so far

clockVars == <<providerClock, prngCache, drawn>>

photoVars == <<wallClock, sharedClock, islands, running, animationFrameId,
               lastElapsedTime, photos, imagesLoaded, pendingLoads, loopPrng,
               decisions, frames, advances>>

classifierVars == <<maskWidth, maskHeight, maskAlpha, detection>>

homographyVars == <<srcQuad, dstQuad, quadHomography, quadInverse, perspectiveDraw>>

clientVars == <<homographyCall, callsMade>>

calibrationVars == <<isCapturing, detectedMarkers, detectionError, calibrationComplete,
                     capturePhase, pendingCalibration, calibration, captureCount,
                     lastCapture>>

warpVars == <<warpSource, warpQuad, projectorMask, perspectiveCanvas>>

shapeVars == <<shapeInput, islandInfo, pomPomReport, pomPomDetection>>

goLiveVars == <<clockCall, serverState, pageState, requests, responses, published, goLives, polls>>

projectionVars == <<mountPhase, projectionState, pollResponse, lastClockSequence, clockProvider, animationProvider, effectPending>>

generatorVars == <<generatorSeed, generatorState, generatorDrawn>>

samVars == <<segmentations, generatedMasks>>

perspectiveVars == <<glCache, glCreated, glDraws>>

gpuVars == <<transforms>>

hbVars == <<hbIslands, letters, currentLetterIndex, phase, sinceLastLetter, sincePhaseStart, lastAdded, phaseTrail, islandChanges, providerChanges, pauseClock>>

spotVars == <<spotPomPoms, assignedPomPoms, internalSpotlights, nextSpotlightId, spotRunning, spotFrameId, spotFrames, lastNewSpotlightTime, spotNow, spotAdvances, spotCallback, lastPomPomState>>

controlVars == <<sharedPlay, pageEffects, lastSubMasksState, islandImageLoads, islandsMaskCanvas, photosAnimIslands, photosAnimRunning, stateChanges>>

syncVars == <<serverHistory, syncRequests, syncResponses, clientState, clientAt, resolvedAt, updatesSent, pollsSent>>

clearVars == <<clearedAt>>

serverVars == <<storedState, previousState, lastPartial, setStateCalls>>

maskVars == <<sharedMasks, maskEffectPending, lastMaskState, maskDecodes, transformedMasks, renderedPairs, maskChanges>>

loopVars == <<loopRunning, loopFrameId, loopFrames, loopCallback, loopTicks>>

vars ==
    <<clockVars,
      photoVars,
      classifierVars,
      homographyVars,
      clientVars,
      calibrationVars,
      warpVars,
      shapeVars,
      goLiveVars,
      projectionVars,
      generatorVars,
      samVars,
      perspectiveVars,
      gpuVars,
      hbVars,
      spotVars,
      controlVars,
      syncVars,
      clearVars,
      serverVars,
      maskVars,
      loopVars>>

\* what the actions of one component leave alone
outsideClock ==
    <<photoVars, classifierVars, homographyVars, clientVars, calibrationVars, warpVars, shapeVars, goLiveVars, projectionVars, generatorVars, samVars, perspectiveVars, gpuVars, hbVars, spotVars, controlVars, syncVars, clearVars, serverVars, maskVars, loopVars>>
outsidePhotos ==
    <<clockVars, classifierVars, homographyVars, clientVars, calibrationVars, warpVars, shapeVars, goLiveVars, projectionVars, generatorVars, samVars, perspectiveVars, gpuVars, hbVars, spotVars, controlVars, syncVars, clearVars, serverVars, maskVars, loopVars>>
outsideClassifier ==
    <<clockVars, photoVars, homographyVars, clientVars, calibrationVars, warpVars, shapeVars, goLiveVars, projectionVars, generatorVars, samVars, perspectiveVars, gpuVars, hbVars, spotVars, controlVars, syncVars, clearVars, serverVars, maskVars, loopVars>>
outsideHomography ==
    <<clockVars, photoVars, classifierVars, clientVars, calibrationVars, warpVars, shapeVars, goLiveVars, projectionVars, generatorVars, samVars, perspectiveVars, gpuVars, hbVars, spotVars, controlVars, syncVars, clearVars, serverVars, maskVars, loopVars>>
outsideClient ==
    <<clockVars, photoVars, classifierVars, homographyVars, calibrationVars, warpVars, shapeVars, goLiveVars, projectionVars, generatorVars, samVars, perspectiveVars, gpuVars, hbVars, spotVars, controlVars, syncVars, clearVars, serverVars, maskVars, loopVars>>
outsideCalibration ==
    <<clockVars, photoVars, classifierVars, homographyVars, clientVars, warpVars, shapeVars, goLiveVars, projectionVars, generatorVars, samVars, perspectiveVars, gpuVars, hbVars, spotVars, controlVars, syncVars, clearVars, serverVars, maskVars, loopVars>>
outsideWarp ==
    <<clockVars, photoVars, classifierVars, homographyVars, clientVars, calibrationVars, shapeVars, goLiveVars, projectionVars, generatorVars, samVars, perspectiveVars, gpuVars, hbVars, spotVars, controlVars, syncVars, clearVars, serverVars, maskVars, loopVars>>
outsideShapes ==
    <<clockVars, photoVars, classifierVars, homographyVars, clientVars, calibrationVars, warpVars, goLiveVars, projectionVars, generatorVars, samVars, perspectiveVars, gpuVars, hbVars, spotVars, controlVars, syncVars, clearVars, serverVars, maskVars, loopVars>>
outsideGoLive ==
    <<clockVars, photoVars, classifierVars, homographyVars, clientVars, calibrationVars, warpVars, shapeVars, projectionVars, generatorVars, samVars, perspectiveVars, gpuVars, hbVars, spotVars, controlVars, syncVars, clearVars, serverVars, maskVars, loopVars>>
outsideProjection ==
    <<clockVars, photoVars, classifierVars, homographyVars, clientVars, calibrationVars, warpVars, shapeVars, goLiveVars, generatorVars, samVars, perspectiveVars, gpuVars, hbVars, spotVars, controlVars, syncVars, clearVars, serverVars, maskVars, loopVars>>
outsideGenerator ==
    <<clockVars, photoVars, classifierVars, homographyVars, clientVars, calibrationVars, warpVars, shapeVars, goLiveVars, projectionVars, samVars, perspectiveVars, gpuVars, hbVars, spotVars, controlVars, syncVars, clearVars, serverVars, maskVars, loopVars>>
outsideSam ==
    <<clockVars, photoVars, classifierVars, homographyVars, clientVars, calibrationVars, warpVars, shapeVars, goLiveVars, projectionVars, generatorVars, perspectiveVars, gpuVars, hbVars, spotVars, controlVars, syncVars, clearVars, serverVars, maskVars, loopVars>>
outsidePerspective ==
    <<clockVars, photoVars, classifierVars, homographyVars, clientVars, calibrationVars, warpVars, shapeVars, goLiveVars, projectionVars, generatorVars, samVars, gpuVars, hbVars, spotVars, controlVars, syncVars, clearVars, serverVars, maskVars, loopVars>>
outsideGpu ==
    <<clockVars, photoVars, classifierVars, homographyVars, clientVars, calibrationVars, warpVars, shapeVars, goLiveVars, projectionVars, generatorVars, samVars, perspectiveVars, hbVars, spotVars, controlVars, syncVars, clearVars, serverVars, maskVars, loopVars>>
outsideHappyBirthday ==
    <<clockVars, photoVars, classifierVars, homographyVars, clientVars, calibrationVars, warpVars, shapeVars, goLiveVars, projectionVars, generatorVars, samVars, perspectiveVars, gpuVars, spotVars, controlVars, syncVars, clearVars, serverVars, maskVars, loopVars>>
outsideSpotlight ==
    <<clockVars, photoVars, classifierVars, homographyVars, clientVars, calibrationVars, warpVars, shapeVars, goLiveVars, projectionVars, generatorVars, samVars, perspectiveVars, gpuVars, hbVars, controlVars, syncVars, clearVars, serverVars, maskVars, loopVars>>
outsideControl ==
    <<clockVars, photoVars, classifierVars, homographyVars, clientVars, calibrationVars, warpVars, shapeVars, goLiveVars, projectionVars, generatorVars, samVars, perspectiveVars, gpuVars, hbVars, spotVars, syncVars, clearVars, serverVars, maskVars, loopVars>>
outsideSync ==
    <<clockVars, photoVars, classifierVars, homographyVars, clientVars, calibrationVars, warpVars, shapeVars, goLiveVars, projectionVars, generatorVars, samVars, perspectiveVars, gpuVars, hbVars, spotVars, controlVars, clearVars, serverVars, maskVars, loopVars>>
outsideClear ==
    <<clockVars, photoVars, classifierVars, homographyVars, clientVars, calibrationVars, warpVars, shapeVars, goLiveVars, projectionVars, generatorVars, samVars, perspectiveVars, gpuVars, hbVars, spotVars, controlVars, syncVars, serverVars, maskVars, loopVars>>

(***************************************************************************)
(* 32-bit integer arithmetic.  A word is the signed value JavaScript's     *)
(* `x | 0` yields, in -2^31 .. 2^31-1.  Every operation works on 16-bit    *)
(* halves so that no intermediate value leaves that range.                 *)
(***************************************************************************)
\* e, with x evaluated first: an operator's argument is otherwise evaluated where
\* it is first used, which nests the evaluation of a long loop too deeply
Strict(x, e) == IF x = x THEN e ELSE e

Half == 65536

Min(a, b) == IF a <= b THEN a ELSE b

Abs(x) == IF x < 0 THEN -x ELSE x

Lo16(w) == w % Half

Hi16(w) == (w \div Half) % Half

FromHalves(h, l) == IF h >= 32768 THEN (h - Half) * Half + l ELSE h * Half + l

\* (a + b) | 0
Add32(a, b) ==
    LET l == Lo16(a) + Lo16(b)
        h == Hi16(a) + Hi16(b) + (l \div Half)
    IN  FromHalves(h % Half, l % Half)

\* (a - b) | 0
Sub32(a, b) ==
    LET l == Lo16(a) - Lo16(b)
        h == Hi16(a) - Hi16(b) + (l \div Half)
    IN  FromHalves(h % Half, l % Half)

RECURSIVE XorBits(_, _, _)
XorBits(a, b, n) ==
    IF n = 0 THEN 0
    ELSE (((a % 2) + (b % 2)) % 2) + 2 * XorBits(a \div 2, b \div 2, n - 1)

RECURSIVE OrBits(_, _, _)
OrBits(a, b, n) ==
    IF n = 0 THEN 0
    ELSE (IF (a % 2) = 1 \/ (b % 2) = 1 THEN 1 ELSE 0) + 2 * OrBits(a \div 2, b \div 2, n - 1)

\* a ^ b
Xor32(a, b) == FromHalves(XorBits(Hi16(a), Hi16(b), 16), XorBits(Lo16(a), Lo16(b), 16))

\* a | b
Or32(a, b) == FromHalves(OrBits(Hi16(a), Hi16(b), 16), OrBits(Lo16(a), Lo16(b), 16))

Pow2(k) == CASE k = 0 -> 1 [] k = 1 -> 2 [] k = 2 -> 4 [] k = 5 -> 32 [] k = 7 -> 128
             [] k = 9 -> 512 [] k = 14 -> 16384 [] k = 15 -> 32768 [] k = 16 -> 65536

\* a >>> k, for 1 <= k <= 16
Shr32(a, k) == Hi16(a) * Pow2(16 - k) + (Lo16(a) \div Pow2(k))

\* Math.imul(a, b): the low 32 bits of the product, from 8-bit limbs
Imul(a, b) ==
    LET a0 == Lo16(a) % 256
        a1 == Lo16(a) \div 256
        a2 == Hi16(a) % 256
        a3 == Hi16(a) \div 256
        b0 == Lo16(b) % 256
        b1 == Lo16(b) \div 256
        b2 == Hi16(b) % 256
        b3 == Hi16(b) \div 256
        c0 == a0 * b0
        c1 == a0 * b1 + a1 * b0
        c2 == a0 * b2 + a1 * b1 + a2 * b0
        c3 == a0 * b3 + a1 * b2 + a2 * b1 + a3 * b0
        x  == c0 + c1 * 256
        y  == (x \div Half) + c2 + (c3 % 256) * 256
    IN  FromHalves(y % Half, x % Half)

\* a << 5
Shl5(a) == Imul(a, 32)

(***************************************************************************)
(* prng.ts                                                                 *)
(***************************************************************************)
MulberryIncrement == 1831565813   \* 0x6d2b79f5

\* a mutation of PRNGAdvance: the state advances by one
PRNGAdvanceByOne(state) == Add32(state, 1)

\* the generator's state after one more call
PRNGAdvance(state) == Add32(state, MulberryIncrement)

\* the number a call returns from the advanced state, as <<hi, lo>>:
\* the unsigned word hi * 2^16 + lo, to be read as that word / 2^32
PRNGOutput(state) ==
    LET t1 == Imul(Xor32(state, Shr32(state, 15)), Or32(state, 1))
        t2 == Xor32(t1, Add32(t1, Imul(Xor32(t1, Shr32(t1, 7)), Or32(t1, 61))))
        t3 == Xor32(t2, Shr32(t2, 14))
    IN  <<Hi16(t3), Lo16(t3)>>

\* createPRNG(seed): the initial state, seed >>> 0
createPRNG(seed) == seed

\* str.charCodeAt(i), for the namespace strings the program uses
CharCodes(str) ==
    CASE str = "x" -> <<120>>
      [] str = "island-photos-spawn" ->
            <<105, 115, 108, 97, 110, 100, 45, 112, 104, 111, 116, 111, 115, 45,
              115, 112, 97, 119, 110>>
      [] str = "island-photos-island" ->
            <<105, 115, 108, 97, 110, 100, 45, 112, 104, 111, 116, 111, 115, 45,
              105, 115, 108, 97, 110, 100>>
      [] str = "island-photos-pick" ->
            <<105, 115, 108, 97, 110, 100, 45, 112, 104, 111, 116, 111, 115, 45,
              112, 105, 99, 107>>

\* one round of djb2: ((hash << 5) + hash + c) | 0
hashStep(hash, c) == Add32(Add32(Shl5(hash), hash), c)

RECURSIVE hashFrom(_, _, _)
hashFrom(hash, codes, i) ==
    IF i > Len(codes) THEN hash
    ELSE LET h == hashStep(hash, codes[i]) IN Strict(h, hashFrom(h, codes, i + 1))

\* djb2 over the character codes of str
hashString(str) == hashFrom(5381, CharCodes(str), 1)

\* one round of combineSeeds: ((combined << 5) - combined + seed) | 0
combineStep(combined, seed) == Add32(Sub32(Shl5(combined), combined), seed)

RECURSIVE combineFrom(_, _, _)
combineFrom(combined, seeds, i) ==
    IF i > Len(seeds) THEN combined
    ELSE LET c == combineStep(combined, seeds[i]) IN Strict(c, combineFrom(c, seeds, i + 1))

combineSeeds(seeds) == combineFrom(0, seeds, 1)

\* Math.floor(r * n) for a generator result r and 0 < n < 2^15
FloorTimes(r, n) == (r[1] * n + ((r[2] * n) \div Half)) \div Half

\* r < num / den  for integers num >= 0, 0 < den < 2^15
LessThanRatio(r, num, den) == FloorTimes(r, den) < num

(***************************************************************************)
(* animations/clock.ts                                                     *)
(***************************************************************************)
\* a cache entry: <<>> while the namespace has no generator, else <<state>>
NoPRNG == <<>>

\* a mutation of NamespaceSeed: the sequence number leaks into the seed
NamespaceSeedWithSequence(clock, namespace) ==
    combineSeeds(<<Add32(clock.seed, clock.sequenceNumber), hashString(namespace)>>)

\* createClockProvider.getPRNG: the seed of a namespace's generator
NamespaceSeed(clock, namespace) ==
    combineSeeds(<<clock.seed, hashString(namespace)>>)

\* a mutation of GetPRNGCache: every call makes a new generator
GetPRNGCacheRestart(clock, cache, namespace) ==
    [cache EXCEPT ![namespace] = <<createPRNG(NamespaceSeed(clock, namespace))>>]

\* getPRNG(namespace) on a provider: the cache after the call
GetPRNGCache(clock, cache, namespace) ==
    IF cache[namespace] = NoPRNG
    THEN [cache EXCEPT ![namespace] = <<createPRNG(NamespaceSeed(clock, namespace))>>]
    ELSE cache

\* createAnimationClock's results: a 31-bit seed, a sequence number, a start instant
MaxSeq == 2
MaxDraws == 3
SeedSamples == {12345, 2147483646}
StartSamples == {0, 7}
ClockNamespaces == {"x", "island-photos-spawn"}
Providers == {"control", "projection"}

AnimationClocks ==
    [startedAt : StartSamples, seed : SeedSamples, sequenceNumber : 1 .. MaxSeq]

IdleClock ==
    /\ providerClock = <<>>
    /\ prngCache = <<>>
    /\ drawn = <<>>

IdleClient ==
    /\ homographyCall = <<>>
    /\ callsMade = 0

IdleCalibration ==
    /\ isCapturing = FALSE
    /\ detectedMarkers = <<>>
    /\ detectionError = <<>>
    /\ calibrationComplete = FALSE
    /\ capturePhase = "idle"
    /\ pendingCalibration = <<>>
    /\ calibration = [status |-> "none"]
    /\ captureCount = 0
    /\ lastCapture = <<>>

IdleShapes ==
    /\ shapeInput = <<>>
    /\ islandInfo = <<>>
    /\ pomPomReport = <<>>
    /\ pomPomDetection = <<>>

IdleGoLive ==
    /\ clockCall = <<>>
    /\ serverState = <<>>
    /\ pageState = <<>>
    /\ requests = <<>>
    /\ responses = <<>>
    /\ published = <<>>
    /\ goLives = <<>>
    /\ polls = <<>>

IdleProjection ==
    /\ mountPhase = <<>>
    /\ projectionState = <<>>
    /\ pollResponse = <<>>
    /\ lastClockSequence = <<>>
    /\ clockProvider = <<>>
    /\ animationProvider = <<>>
    /\ effectPending = <<>>

IdleGenerator ==
    /\ generatorSeed = <<>>
    /\ generatorState = <<>>
    /\ generatorDrawn = <<>>

IdleSam ==
    /\ segmentations = <<>>
    /\ generatedMasks = <<>>

IdlePerspective ==
    /\ glCache = <<>>
    /\ glCreated = <<>>
    /\ glDraws = <<>>

IdleGpu ==
    /\ transforms = <<>>

IdleHappyBirthday ==
    /\ hbIslands = <<>>
    /\ letters = <<>>
    /\ currentLetterIndex = <<>>
    /\ phase = <<>>
    /\ sinceLastLetter = <<>>
    /\ sincePhaseStart = <<>>
    /\ lastAdded = <<>>
    /\ phaseTrail = <<>>
    /\ islandChanges = <<>>
    /\ providerChanges = <<>>
    /\ pauseClock = <<>>

IdleSpotlight ==
    /\ spotPomPoms = <<>>
    /\ assignedPomPoms = <<>>
    /\ internalSpotlights = <<>>
    /\ nextSpotlightId = <<>>
    /\ spotRunning = <<>>
    /\ spotFrameId = <<>>
    /\ spotFrames = <<>>
    /\ lastNewSpotlightTime = <<>>
    /\ spotNow = <<>>
    /\ spotAdvances = <<>>
    /\ spotCallback = <<>>
    /\ lastPomPomState = <<>>

IdleControl ==
    /\ sharedPlay = <<>>
    /\ pageEffects = <<>>
    /\ lastSubMasksState = <<>>
    /\ islandImageLoads = <<>>
    /\ islandsMaskCanvas = <<>>
    /\ photosAnimIslands = <<>>
    /\ photosAnimRunning = <<>>
    /\ stateChanges = <<>>

IdleSync ==
    /\ serverHistory = <<>>
    /\ syncRequests = <<>>
    /\ syncResponses = <<>>
    /\ clientState = <<>>
    /\ clientAt = <<>>
    /\ resolvedAt = <<>>
    /\ updatesSent = <<>>
    /\ pollsSent = <<>>

IdleClear ==
    /\ clearedAt = <<>>

IdleServer ==
    /\ storedState = <<>>
    /\ previousState = <<>>
    /\ lastPartial = <<>>
    /\ setStateCalls = <<>>

IdleMasks ==
    /\ sharedMasks = <<>>
    /\ maskEffectPending = <<>>
    /\ lastMaskState = <<>>
    /\ maskDecodes = <<>>
    /\ transformedMasks = <<>>
    /\ renderedPairs = <<>>
    /\ maskChanges = <<>>

IdleLoops ==
    /\ loopRunning = <<>>
    /\ loopFrameId = <<>>
    /\ loopFrames = <<>>
    /\ loopCallback = <<>>
    /\ loopTicks = <<>>

IdleWarp ==
    /\ warpSource = <<>>
    /\ warpQuad = <<>>
    /\ projectorMask = <<>>
    /\ perspectiveCanvas = <<>>

IdleHomography ==
    /\ srcQuad = <<>>
    /\ dstQuad = <<>>
    /\ quadHomography = <<>>
    /\ quadInverse = <<>>
    /\ perspectiveDraw = <<>>

IdleClassifier ==
    /\ maskWidth = 0
    /\ maskHeight = 0
    /\ maskAlpha = <<>>
    /\ detection = <<>>

IdlePhotos ==
    /\ wallClock = 0
    /\ sharedClock = <<>>
    /\ islands = <<>>
    /\ running = <<>>
    /\ animationFrameId = <<>>
    /\ lastElapsedTime = <<>>
    /\ photos = <<>>
    /\ imagesLoaded = <<>>
    /\ pendingLoads = <<>>
    /\ loopPrng = <<>>
    /\ decisions = <<>>
    /\ frames = <<>>
    /\ advances = 0

\* two providers, each constructed by createClockProvider from some clock
InitClock ==
    /\ providerClock \in [Providers -> AnimationClocks]
    /\ providerClock["control"].startedAt = 0
    /\ providerClock["control"].sequenceNumber = 1
    /\ providerClock["projection"].startedAt = 7
    /\ prngCache = [p \in Providers |-> [ns \in ClockNamespaces |-> NoPRNG]]
    /\ drawn = [p \in Providers |-> [ns \in ClockNamespaces |-> <<>>]]
    /\ IdlePhotos
    /\ IdleClassifier
    /\ IdleHomography
    /\ IdleClient
    /\ IdleCalibration
    /\ IdleWarp
    /\ IdleShapes
    /\ IdleGoLive
    /\ IdleProjection
    /\ IdleGenerator
    /\ IdleSam
    /\ IdlePerspective
    /\ IdleGpu
    /\ IdleHappyBirthday
    /\ IdleSpotlight
    /\ IdleControl
    /\ IdleSync
    /\ IdleClear
    /\ IdleServer
    /\ IdleMasks
    /\ IdleLoops

RECURSIVE SumLen(_, _)
SumLen(f, S) ==
    IF S = {} THEN 0
    ELSE LET x == CHOOSE y \in S : TRUE IN Len(f[x]) + SumLen(f, S \ {x})

\* the numbers provider p has drawn, over all namespaces
TotalDrawn(p) == SumLen(drawn[p], DOMAIN drawn[p])

\* provider.getPRNG(namespace), the generator not called
GetPRNG(p, namespace) ==
    /\ prngCache[p][namespace] = NoPRNG
    /\ prngCache' = [prngCache EXCEPT ![p] =
                        GetPRNGCache(providerClock[p], prngCache[p], namespace)]
    /\ UNCHANGED <<providerClock, drawn, outsideClock>>

\* provider.getPRNG(namespace)(): one number drawn
DrawNumber(p, namespace) ==
    /\ TotalDrawn(p) < MaxDraws
    /\ prngCache' = [prngCache EXCEPT ![p] =
            LET cache == GetPRNGCache(providerClock[p], prngCache[p], namespace)
            IN  [cache EXCEPT ![namespace] = <<PRNGAdvance(cache[namespace][1])>>]]
    /\ drawn' = [drawn EXCEPT ![p][namespace] =
            Append(@, PRNGOutput(prngCache'[p][namespace][1]))]
    /\ UNCHANGED <<providerClock, outsideClock>>

NextClock ==
    \/ \E p \in Providers, ns \in ClockNamespaces : GetPRNG(p, ns)
    \/ \E p \in Providers, ns \in ClockNamespaces : DrawNumber(p, ns)

SpecClock == InitClock /\ [][NextClock]_vars

(***************************************************************************)
(* C2: two separately constructed providers whose clocks have the same     *)
(* seed return, for the same namespace, the same numbers call for call,    *)
(* whatever their sequence numbers and start instants.                     *)
(***************************************************************************)
SameSeedSameSequence ==
    \A p \in Providers, q \in Providers, ns \in ClockNamespaces :
        providerClock[p].seed = providerClock[q].seed =>
            \A i \in 1 .. Min(Len(drawn[p][ns]), Len(drawn[q][ns])) :
                drawn[p][ns][i] = drawn[q][ns][i]

SameSeedSameSequenceWitness ==
    /\ providerClock["control"].seed = providerClock["projection"].seed
    /\ providerClock["control"].sequenceNumber # providerClock["projection"].sequenceNumber
    /\ Len(drawn["control"]["x"]) = MaxDraws
    /\ Len(drawn["projection"]["x"]) = MaxDraws
    /\ drawn["control"]["x"][1] # drawn["control"]["x"][2]

(***************************************************************************)
(* animations/island-photos.ts                                             *)
(***************************************************************************)
DISPLAY_DURATION_MS == 10000
FADE_DURATION_MS == 1500
MAX_ACTIVE_ISLANDS == 2
AVG_SPAWN_INTERVAL_MS == 6000
DefaultDeltaMs == 16

\* photoPaths: the paths are named by their position in the list
NumPhotoPaths == 12

\* opacities are kept as multiples of 1 / OpacityUnit, OpacityUnit = FADE_DURATION_MS^2
OpacityUnit == FADE_DURATION_MS * FADE_DURATION_MS

\* calculateOpacity(elapsed), times OpacityUnit
calculateOpacity(elapsed) ==
    IF elapsed < FADE_DURATION_MS
    THEN OpacityUnit - (FADE_DURATION_MS - elapsed) * (FADE_DURATION_MS - elapsed)
    ELSE IF elapsed > DISPLAY_DURATION_MS - FADE_DURATION_MS
         THEN (DISPLAY_DURATION_MS - elapsed) * (DISPLAY_DURATION_MS - elapsed)
         ELSE OpacityUnit

\* Math.abs(a - b) > 0.01 on opacities
OpacityChanged(a, b) == Abs(a - b) > OpacityUnit \div 100

Loops == {"control", "projection"}
PhotoNamespaces == {"island-photos-spawn", "island-photos-island", "island-photos-pick"}

\* clockProvider.getElapsedTime()
getElapsedTime == wallClock - sharedClock.startedAt

\* the state of a namespace's generator after one more call on the loop's provider
NextPrngState(cache, namespace) ==
    PRNGAdvance(GetPRNGCache(sharedClock, cache, namespace)[namespace][1])

\* the indices from i on, in order, of the islands that are valid and hold no photo
RECURSIVE FilterIndices(_, _, _)
FilterIndices(list, map, i) ==
    IF i > Len(list) THEN <<>>
    ELSE (IF list[i].isIsland /\ i \notin DOMAIN map THEN <<i>> ELSE <<>>)
         \o FilterIndices(list, map, i + 1)

\* addNewPhoto: the islands that are valid and hold no photo
availableIslands(map) == FilterIndices(islands, map, 1)

\* the photo addNewPhoto stores once its image is there
NewPhoto(islandIndex, photoPath, now) ==
    [islandIndex |-> islandIndex, photoPath |-> photoPath, opacity |-> 0,
     startTime |-> now]

PutPhoto(map, photo) ==
    [i \in DOMAIN map \cup {photo.islandIndex} |->
        IF i = photo.islandIndex THEN photo ELSE map[i]]

\* tick's first loop and the removal of expired photos
UpdatedPhotos(map, now) ==
    LET live == {i \in DOMAIN map : now - map[i].startTime < DISPLAY_DURATION_MS}
    IN  [i \in live |->
            LET newOpacity == calculateOpacity(now - map[i].startTime)
            IN  IF OpacityChanged(map[i].opacity, newOpacity)
                THEN [map[i] EXCEPT !.opacity = newOpacity]
                ELSE map[i]]

\* tick: prng() < deltaMs / AVG_SPAWN_INTERVAL_MS
SpawnDecision(r, deltaMs) == LessThanRatio(r, deltaMs, AVG_SPAWN_INTERVAL_MS)

MaxFrames == 3
MaxAdvances == 3
TimeSteps == {16, 1000}
IslandSamples ==
    { <<[isIsland |-> TRUE], [isIsland |-> FALSE], [isIsland |-> TRUE]>>,
      <<[isIsland |-> TRUE]>> }

\* both loops have been given the same clock, islands and photo list, and started
InitRenderLoops ==
    /\ wallClock = 0
    /\ sharedClock \in [startedAt : {0}, seed : SeedSamples, sequenceNumber : {1}]
    /\ islands \in IslandSamples
    /\ running = [l \in Loops |-> TRUE]
    /\ animationFrameId = [l \in Loops |-> "scheduled"]
    /\ lastElapsedTime = [l \in Loops |-> 0]
    /\ photos = [l \in Loops |-> <<>>]
    /\ imagesLoaded = [l \in Loops |-> {}]
    /\ pendingLoads = [l \in Loops |-> <<>>]
    /\ loopPrng = [l \in Loops |-> [ns \in PhotoNamespaces |-> NoPRNG]]
    /\ decisions = [l \in Loops |-> <<>>]
    /\ frames = [l \in Loops |-> 0]
    /\ advances = 0
    /\ IdleClock
    /\ IdleClassifier
    /\ IdleHomography
    /\ IdleClient
    /\ IdleCalibration
    /\ IdleWarp
    /\ IdleShapes
    /\ IdleGoLive
    /\ IdleProjection
    /\ IdleGenerator
    /\ IdleSam
    /\ IdlePerspective
    /\ IdleGpu
    /\ IdleHappyBirthday
    /\ IdleSpotlight
    /\ IdleControl
    /\ IdleSync
    /\ IdleClear
    /\ IdleServer
    /\ IdleMasks
    /\ IdleLoops

\* time passes between callbacks
elapse(dt) ==
    /\ wallClock' = wallClock + dt
    /\ advances' = advances + 1
    /\ UNCHANGED <<sharedClock, islands, running, animationFrameId, lastElapsedTime,
                   photos, imagesLoaded, pendingLoads, loopPrng, decisions, frames>>
    /\ UNCHANGED outsidePhotos

AdvanceTime(dt) == advances < MaxAdvances /\ elapse(dt)

\* tick(), as the frame callback of loop l, with the part of addNewPhoto that runs
\* before its await; an image already cached resolves before the next callback
tick(l) ==
    /\ animationFrameId[l] = "scheduled"
    /\ running[l]
    /\ LET now      == getElapsedTime
           deltaMs  == IF lastElapsedTime[l] > 0 THEN now - lastElapsedTime[l]
                       ELSE DefaultDeltaMs
           kept     == UpdatedPhotos(photos[l], now)
           draws    == Cardinality(DOMAIN kept) < MAX_ACTIVE_ISLANDS
           spawnSt  == NextPrngState(loopPrng[l], "island-photos-spawn")
           spawn    == draws /\ SpawnDecision(PRNGOutput(spawnSt), deltaMs)
           avail    == availableIslands(kept)
           adds     == spawn /\ Len(avail) > 0
           islandSt == NextPrngState(loopPrng[l], "island-photos-island")
           pickSt   == NextPrngState(loopPrng[l], "island-photos-pick")
           island   == avail[FloorTimes(PRNGOutput(islandSt), Len(avail)) + 1]
           path     == FloorTimes(PRNGOutput(pickSt), NumPhotoPaths) + 1
           cached   == path \in imagesLoaded[l]
       IN  /\ lastElapsedTime' = [lastElapsedTime EXCEPT ![l] = now]
           /\ loopPrng' = [loopPrng EXCEPT ![l] =
                [ns \in PhotoNamespaces |->
                    IF ns = "island-photos-spawn" /\ draws THEN <<spawnSt>>
                    ELSE IF ns = "island-photos-island" /\ adds THEN <<islandSt>>
                    ELSE IF ns = "island-photos-pick" /\ adds THEN <<pickSt>>
                    ELSE loopPrng[l][ns]]]
           /\ decisions' = [decisions EXCEPT ![l] =
                @ \o (IF draws THEN <<[kind |-> "spawn", value |-> IF spawn THEN 1 ELSE 0]>>
                      ELSE <<>>)
                  \o (IF adds THEN <<[kind |-> "island", value |-> island],
                                     [kind |-> "photo", value |-> path]>>
                      ELSE <<>>)]
           /\ photos' = [photos EXCEPT ![l] =
                IF adds /\ cached THEN PutPhoto(kept, NewPhoto(island, path, now))
                ELSE kept]
           /\ pendingLoads' = [pendingLoads EXCEPT ![l] =
                IF adds /\ ~cached
                THEN Append(@, [islandIndex |-> island, photoPath |-> path, now |-> now])
                ELSE @]
    /\ frames' = [frames EXCEPT ![l] = @ + 1]
    /\ UNCHANGED <<wallClock, sharedClock, islands, running, animationFrameId,
                   imagesLoaded, advances>>
    /\ UNCHANGED outsidePhotos

Tick(l) == frames[l] < MaxFrames /\ tick(l)

\* img.onload of the oldest image loop l waits for: loadImage caches the image and
\* addNewPhoto resumes after its await
ImageLoaded(l) ==
    /\ pendingLoads[l] # <<>>
    /\ LET load == Head(pendingLoads[l])
       IN  /\ imagesLoaded' = [imagesLoaded EXCEPT ![l] = @ \cup {load.photoPath}]
           /\ photos' = [photos EXCEPT ![l] =
                PutPhoto(@, NewPhoto(load.islandIndex, load.photoPath, load.now))]
    /\ pendingLoads' = [pendingLoads EXCEPT ![l] = Tail(@)]
    /\ UNCHANGED <<wallClock, sharedClock, islands, running, animationFrameId,
                   lastElapsedTime, loopPrng, decisions, frames, advances>>
    /\ UNCHANGED outsidePhotos

NextRenderLoops ==
    \/ \E dt \in TimeSteps : AdvanceTime(dt)
    \/ \E l \in Loops : Tick(l)
    \/ \E l \in Loops : ImageLoaded(l)

SpecRenderLoops == InitRenderLoops /\ [][NextRenderLoops]_vars

(***************************************************************************)
(* C1: two render loops that hold the same AnimationClock value and run    *)
(* the island-photos animation over the same islands and photo list make   *)
(* the same sequence of spawn decisions, island choices and photo picks,   *)
(* whatever the times at which their frame callbacks fire: of the two      *)
(* decision sequences, one is always a prefix of the other.                *)
(***************************************************************************)
SameDecisions ==
    \A l \in Loops, m \in Loops :
        \A i \in 1 .. Min(Len(decisions[l]), Len(decisions[m])) :
            decisions[l][i] = decisions[m][i]

(***************************************************************************)
(* island-detection.ts                                                     *)
(* Pixels are indexed 0 .. width * height - 1 in row-major order, as in    *)
(* the source.  Ratios are pairs <<numerator, denominator>>.               *)
(***************************************************************************)
AlphaThreshold == 128
Opaque == 255

\* a mutation of DEFAULT_CONFIG: the aspect tolerance is 0.5
DefaultConfigWideTolerance ==
    [targetAspectRatio |-> <<3, 2>>, aspectTolerance |-> <<1, 2>>,
     minRectangularity |-> <<3, 5>>, minArea |-> 2000, maxAreaRatio |-> <<3, 20>>]

DEFAULT_CONFIG ==
    [targetAspectRatio |-> <<3, 2>>, aspectTolerance |-> <<2, 5>>,
     minRectangularity |-> <<3, 5>>, minArea |-> 2000, maxAreaRatio |-> <<3, 20>>]

\* new UnionFind(size)
UnionFind(size) == [parent |-> [i \in 0 .. size - 1 |-> i], rank |-> [i \in 0 .. size - 1 |-> 0]]

RECURSIVE ufRoot(_, _)
ufRoot(parent, x) == IF parent[x] = x THEN x ELSE ufRoot(parent, parent[x])

\* the path compression of find(x): every node on the way up points to the root
RECURSIVE ufCompress(_, _, _)
ufCompress(parent, x, root) ==
    IF parent[x] = x THEN parent
    ELSE ufCompress([parent EXCEPT ![x] = root], parent[x], root)

\* find(x): the root, and the structure after the call
ufFind(uf, x) ==
    LET root == ufRoot(uf.parent, x)
    IN  [root |-> root, uf |-> [uf EXCEPT !.parent = ufCompress(uf.parent, x, root)]]

\* union(x, y): the structure after the call
ufUnion(uf, x, y) ==
    LET fx == ufFind(uf, x)
        fy == ufFind(fx.uf, y)
        rootX == fx.root
        rootY == fy.root
        u == fy.uf
    IN  IF rootX = rootY THEN u
        ELSE IF u.rank[rootX] < u.rank[rootY]
             THEN [u EXCEPT !.parent[rootX] = rootY]
             ELSE IF u.rank[rootX] > u.rank[rootY]
                  THEN [u EXCEPT !.parent[rootY] = rootX]
                  ELSE [u EXCEPT !.parent[rootY] = rootX, !.rank[rootX] = @ + 1]

\* a mutation of LabelStep: two labelled neighbours are not united
LabelStepNoUnion(binary, width, idx, st) ==
    IF binary[idx] = 0 THEN st
    ELSE LET leftLabel == IF idx % width > 0 /\ binary[idx - 1] = 1
                          THEN st.labels[idx - 1] ELSE 0
             topLabel  == IF idx \div width > 0 /\ binary[idx - width] = 1
                          THEN st.labels[idx - width] ELSE 0
         IN  IF leftLabel = 0 /\ topLabel = 0
             THEN [st EXCEPT !.labels[idx] = st.nextLabel, !.nextLabel = @ + 1]
             ELSE IF leftLabel > 0 /\ topLabel > 0
                  THEN [st EXCEPT !.labels[idx] = Min(leftLabel, topLabel)]
                  ELSE [st EXCEPT !.labels[idx] = IF leftLabel # 0 THEN leftLabel
                                                  ELSE topLabel]

\* the body of the first pass for pixel idx; st holds labels, uf and nextLabel
LabelStep(binary, width, idx, st) ==
    IF binary[idx] = 0 THEN st
    ELSE LET leftLabel == IF idx % width > 0 /\ binary[idx - 1] = 1
                          THEN st.labels[idx - 1] ELSE 0
             topLabel  == IF idx \div width > 0 /\ binary[idx - width] = 1
                          THEN st.labels[idx - width] ELSE 0
         IN  IF leftLabel = 0 /\ topLabel = 0
             THEN [st EXCEPT !.labels[idx] = st.nextLabel, !.nextLabel = @ + 1]
             ELSE IF leftLabel > 0 /\ topLabel > 0
                  THEN [st EXCEPT !.labels[idx] = Min(leftLabel, topLabel),
                                  !.uf = ufUnion(st.uf, leftLabel, topLabel)]
                  ELSE [st EXCEPT !.labels[idx] = IF leftLabel # 0 THEN leftLabel
                                                  ELSE topLabel]

\* the first pass over the pixels lo .. hi - 1, in order; the range is halved so
\* that the evaluation of a long loop does not nest deeply
RECURSIVE FirstPass(_, _, _, _, _)
FirstPass(binary, width, lo, hi, st) ==
    IF lo >= hi THEN st
    ELSE IF hi = lo + 1 THEN LabelStep(binary, width, lo, st)
    ELSE LET mid == (lo + hi) \div 2
             left == FirstPass(binary, width, lo, mid, st)
         IN  Strict(left, FirstPass(binary, width, mid, hi, left))

\* the second pass over the pixels lo .. hi - 1: every label replaced by its root
RECURSIVE SecondPass(_, _, _)
SecondPass(lo, hi, st) ==
    IF lo >= hi THEN st
    ELSE IF hi = lo + 1
         THEN IF st.labels[lo] > 0
              THEN LET f == ufFind(st.uf, st.labels[lo])
                   IN  [st EXCEPT !.labels[lo] = f.root, !.uf = f.uf]
              ELSE st
    ELSE LET mid == (lo + hi) \div 2
             left == SecondPass(lo, mid, st)
         IN  Strict(left, SecondPass(mid, hi, left))

\* steps 1 and 2: the label of every pixel, 0 for background
LabelComponents(binary, width, height) ==
    LET total == width * height
        start == [labels |-> [i \in 0 .. total - 1 |-> 0],
                  uf |-> UnionFind(total + 1), nextLabel |-> 1]
    IN  SecondPass(0, total, FirstPass(binary, width, 0, total, start)).labels

\* step 3: the labels in the order in which the scan of the pixels lo .. hi - 1
\* first meets them, after those already seen
RECURSIVE LabelOrder(_, _, _, _)
LabelOrder(labels, lo, hi, seen) ==
    IF lo >= hi THEN seen
    ELSE IF hi = lo + 1
         THEN IF labels[lo] = 0 \/ \E k \in 1 .. Len(seen) : seen[k] = labels[lo]
              THEN seen
              ELSE Append(seen, labels[lo])
    ELSE LET mid == (lo + hi) \div 2
             left == LabelOrder(labels, lo, mid, seen)
         IN  Strict(left, LabelOrder(labels, mid, hi, left))

SetMin(S) == CHOOSE x \in S : \A y \in S : x <= y
SetMax(S) == CHOOSE x \in S : \A y \in S : x >= y

\* step 3: the properties of the component labelled label
ComponentProps(labels, width, total, label) ==
    LET pix == {i \in 0 .. total - 1 : labels[i] = label}
    IN  [pixelCount |-> Cardinality(pix),
         minX |-> SetMin({i % width : i \in pix}), maxX |-> SetMax({i % width : i \in pix}),
         minY |-> SetMin({i \div width : i \in pix}),
         maxY |-> SetMax({i \div width : i \in pix})]

\* step 4: the ComponentInfo of one component
Classify(label, comp, cfg, totalPixels) ==
    LET compWidth == comp.maxX - comp.minX + 1
        compHeight == comp.maxY - comp.minY + 1
        boundingArea == compWidth * compHeight
        normalizedAspect == IF compWidth > compHeight THEN <<compWidth, compHeight>>
                            ELSE <<compHeight, compWidth>>
        aspectOk == Abs(normalizedAspect[1] * cfg.targetAspectRatio[2]
                        - cfg.targetAspectRatio[1] * normalizedAspect[2])
                        * cfg.aspectTolerance[2]
                    < cfg.aspectTolerance[1] * normalizedAspect[2] * cfg.targetAspectRatio[2]
        rectOk == comp.pixelCount * cfg.minRectangularity[2]
                    >= cfg.minRectangularity[1] * boundingArea
        sizeOk == /\ comp.pixelCount >= cfg.minArea
                  /\ comp.pixelCount * cfg.maxAreaRatio[2] <= cfg.maxAreaRatio[1] * totalPixels
    IN  [label |-> label, pixelCount |-> comp.pixelCount,
         boundingBox |-> [minX |-> comp.minX, maxX |-> comp.maxX,
                          minY |-> comp.minY, maxY |-> comp.maxY],
         width |-> compWidth, height |-> compHeight,
         aspectRatio |-> normalizedAspect,
         rectangularity |-> <<comp.pixelCount, boundingArea>>,
         isIsland |-> aspectOk /\ rectOk /\ sizeOk]

\* a mutation of SubMaskPixel: a foreground pixel is land whether or not it is island
SubMaskPixelLandAlways(bit, inIsland) ==
    [water |-> IF bit = 0 THEN Opaque ELSE 0,
     islands |-> IF bit # 0 /\ inIsland THEN Opaque ELSE 0,
     land |-> IF bit # 0 THEN Opaque ELSE 0]

\* step 5: the alpha written for one pixel to each of the three sub-masks
SubMaskPixel(bit, inIsland) ==
    IF bit = 0 THEN [water |-> Opaque, islands |-> 0, land |-> 0]
    ELSE IF inIsland THEN [water |-> 0, islands |-> Opaque, land |-> 0]
         ELSE [water |-> 0, islands |-> 0, land |-> Opaque]

\* { ...defaults, ...config }
mergeConfig(defaults, config) ==
    [k \in DOMAIN defaults |-> IF k \in DOMAIN config THEN config[k] ELSE defaults[k]]

\* detectIslands(maskCanvas, config); labels is the local array of the call, kept
\* in the result so that the labelling can be observed
detectIslands(width, height, alpha, config) ==
    LET cfg == mergeConfig(DEFAULT_CONFIG, config)
        totalPixels == width * height
        binary == [i \in 0 .. totalPixels - 1 |-> IF alpha[i] > AlphaThreshold THEN 1 ELSE 0]
        labels == LabelComponents(binary, width, height)
        order == LabelOrder(labels, 0, totalPixels, <<>>)
        components == [k \in 1 .. Len(order) |->
                          Classify(order[k], ComponentProps(labels, width, totalPixels, order[k]),
                                   cfg, totalPixels)]
        islandLabels == {components[k].label : k \in {j \in 1 .. Len(order) : components[j].isIsland}}
        out == [i \in 0 .. totalPixels - 1 |-> SubMaskPixel(binary[i], labels[i] \in islandLabels)]
    IN  [islands |-> [i \in 0 .. totalPixels - 1 |-> out[i].islands],
         land |-> [i \in 0 .. totalPixels - 1 |-> out[i].land],
         water |-> [i \in 0 .. totalPixels - 1 |-> out[i].water],
         labels |-> labels,
         stats |-> [islandCount |-> Cardinality(islandLabels),
                    islandPixels |-> Cardinality({i \in 0 .. totalPixels - 1 : out[i].islands = Opaque}),
                    landPixels |-> Cardinality({i \in 0 .. totalPixels - 1 : out[i].land = Opaque}),
                    waterPixels |-> Cardinality({i \in 0 .. totalPixels - 1 : out[i].water = Opaque}),
                    components |-> components]]

MaxPixels == 9
AlphaSamples == {0, Opaque}
ConfigSamples ==
    { <<>>,
      [minArea |-> 2, maxAreaRatio |-> <<1, 1>>] }

\* a mask canvas of at most MaxPixels pixels
InitClassifier ==
    /\ maskWidth \in 1 .. MaxPixels
    /\ maskHeight \in 1 .. MaxPixels
    /\ maskWidth * maskHeight <= MaxPixels
    /\ maskAlpha \in [0 .. maskWidth * maskHeight - 1 -> AlphaSamples]
    /\ detection = <<>>
    /\ IdleClock
    /\ IdlePhotos
    /\ IdleHomography
    /\ IdleClient
    /\ IdleCalibration
    /\ IdleWarp
    /\ IdleShapes
    /\ IdleGoLive
    /\ IdleProjection
    /\ IdleGenerator
    /\ IdleSam
    /\ IdlePerspective
    /\ IdleGpu
    /\ IdleHappyBirthday
    /\ IdleSpotlight
    /\ IdleControl
    /\ IdleSync
    /\ IdleClear
    /\ IdleServer
    /\ IdleMasks
    /\ IdleLoops

DetectIslands(config) ==
    /\ detection = <<>>
    /\ detection' = <<detectIslands(maskWidth, maskHeight, maskAlpha, config)>>
    /\ UNCHANGED <<maskWidth, maskHeight, maskAlpha, outsideClassifier>>

NextClassifier == \E config \in ConfigSamples : DetectIslands(config)

SpecClassifier == InitClassifier /\ [][NextClassifier]_vars

\* the pixels of the mask, and those in the foreground
Pixels == 0 .. maskWidth * maskHeight - 1
Foreground == {i \in Pixels : maskAlpha[i] > AlphaThreshold}

\* the foreground pixels next to pixel i, horizontally or vertically
Neighbours(i) ==
    {j \in Foreground :
        \/ j = i - 1 /\ i % maskWidth > 0
        \/ j = i + 1 /\ j % maskWidth > 0
        \/ j = i - maskWidth
        \/ j = i + maskWidth}

\* the foreground pixels joined to those of S by a path of adjacent foreground pixels
RECURSIVE Reachable(_)
Reachable(S) ==
    LET next == S \cup UNION {Neighbours(i) : i \in S}
    IN  IF next = S THEN S ELSE Reachable(next)

(***************************************************************************)
(* C3: every pixel is set in exactly one of the three output rasters: in   *)
(* water iff it is background, in islands iff it is foreground and its     *)
(* component is classified as an island, in land otherwise.                *)
(***************************************************************************)
SubMasksPartition ==
    detection # <<>> =>
        LET r == detection[1]
            comps == r.stats.components
            islandComponent(i) ==
                \E k \in 1 .. Len(comps) : comps[k].label = r.labels[i] /\ comps[k].isIsland
        IN  \A i \in Pixels :
              /\ Cardinality({m \in {"islands", "land", "water"} : r[m][i] = Opaque}) = 1
              /\ \A m \in {"islands", "land", "water"} : r[m][i] \in {0, Opaque}
              /\ r.water[i] = Opaque <=> i \notin Foreground
              /\ r.islands[i] = Opaque <=> (i \in Foreground /\ islandComponent(i))
              /\ r.land[i] = Opaque <=> (i \in Foreground /\ ~islandComponent(i))

SubMasksPartitionWitness ==
    /\ detection # <<>>
    /\ \E i \in Pixels : detection[1].islands[i] = Opaque
    /\ \E i \in Pixels : detection[1].land[i] = Opaque
    /\ \E i \in Pixels : detection[1].water[i] = Opaque

(***************************************************************************)
(* C4: after the second pass two foreground pixels carry the same label    *)
(* iff a path of horizontally or vertically adjacent foreground pixels     *)
(* joins them, and one component record is produced per such component.    *)
(***************************************************************************)
LabelsAreComponents ==
    detection # <<>> =>
        LET r == detection[1]
        IN  /\ \A i \in Pixels : r.labels[i] > 0 <=> i \in Foreground
            /\ \A i \in Foreground, j \in Foreground :
                  r.labels[i] = r.labels[j] <=> j \in Reachable({i})
            /\ Len(r.stats.components) = Cardinality({Reachable({i}) : i \in Foreground})
            /\ \A k \in 1 .. Len(r.stats.components) :
                  \E i \in Foreground :
                      /\ r.labels[i] = r.stats.components[k].label
                      /\ r.stats.components[k].pixelCount = Cardinality(Reachable({i}))

\* a component whose two arms meet only in a later row: the first pass gives the
\* arms different provisional labels
LabelsAreComponentsWitness ==
    /\ detection # <<>>
    /\ maskWidth >= 3
    /\ 0 \in Foreground /\ 1 \notin Foreground /\ 2 \in Foreground
    /\ {maskWidth, maskWidth + 1, maskWidth + 2} \subseteq Foreground
    /\ detection[1].labels[0] = detection[1].labels[2]

(***************************************************************************)
(* JavaScript numbers for the homography code.  A number is a pair:        *)
(* <<n, d>> with d > 0 and n, d coprime is the rational n / d, <<0, 1>>    *)
(* and <<0, -1>> are +0 and -0, <<1, 0>> and <<-1, 0>> are +Infinity and   *)
(* -Infinity, <<0, 0>> is NaN.  The operations follow IEEE 754 on the      *)
(* special values and are exact on the rationals: rounding is not          *)
(* modelled.                                                               *)
(***************************************************************************)
NaN == <<0, 0>>

RECURSIVE Gcd(_, _)
Gcd(a, b) == IF b = 0 THEN a ELSE Gcd(b, a % b)

IsNaN(a) == a[1] = 0 /\ a[2] = 0
IsInf(a) == a[1] # 0 /\ a[2] = 0
IsZero(a) == a[1] = 0 /\ a[2] # 0
IsFinite(a) == a[2] # 0
SignOf(a) == IF a[1] < 0 \/ (a[1] = 0 /\ a[2] < 0) THEN -1 ELSE 1

\* -a
FNeg(a) == IF a[1] = 0 THEN <<0, -a[2]>> ELSE <<-a[1], a[2]>>

\* Math.abs(a)
FAbs(a) == IF a[1] = 0 THEN <<0, Abs(a[2])>> ELSE <<Abs(a[1]), a[2]>>

\* a * b
FMul(a, b) ==
    LET s == SignOf(a) * SignOf(b)
    IN  IF IsNaN(a) \/ IsNaN(b) THEN NaN
        ELSE IF IsInf(a) \/ IsInf(b)
             THEN IF IsZero(a) \/ IsZero(b) THEN NaN ELSE <<s, 0>>
             ELSE IF IsZero(a) \/ IsZero(b) THEN <<0, s>>
                  ELSE LET g1 == Gcd(Abs(a[1]), b[2])
                           g2 == Gcd(Abs(b[1]), a[2])
                       IN  <<(a[1] \div g1) * (b[1] \div g2), (a[2] \div g2) * (b[2] \div g1)>>

\* a / b
FDiv(a, b) ==
    LET s == SignOf(a) * SignOf(b)
    IN  IF IsNaN(a) \/ IsNaN(b) THEN NaN
        ELSE IF IsInf(a) THEN (IF IsInf(b) THEN NaN ELSE <<s, 0>>)
        ELSE IF IsInf(b) THEN <<0, s>>
        ELSE IF IsZero(b) THEN (IF IsZero(a) THEN NaN ELSE <<s, 0>>)
        ELSE IF IsZero(a) THEN <<0, s>>
        ELSE FMul(a, <<SignOf(b) * b[2], Abs(b[1])>>)

\* a + b
FAdd(a, b) ==
    IF IsNaN(a) \/ IsNaN(b) THEN NaN
    ELSE IF IsInf(a) THEN (IF IsInf(b) /\ a[1] # b[1] THEN NaN ELSE a)
    ELSE IF IsInf(b) THEN b
    ELSE IF IsZero(a) /\ IsZero(b) THEN (IF a[2] < 0 /\ b[2] < 0 THEN <<0, -1>> ELSE <<0, 1>>)
    ELSE IF IsZero(a) THEN b
    ELSE IF IsZero(b) THEN a
    ELSE LET g == Gcd(a[2], b[2])
             n == a[1] * (b[2] \div g) + b[1] * (a[2] \div g)
             d == (a[2] \div g) * b[2]
             h == Gcd(Abs(n), d)
         IN  IF n = 0 THEN <<0, 1>> ELSE <<n \div h, d \div h>>

\* a - b
FSub(a, b) == FAdd(a, FNeg(b))

\* a > b
FGt(a, b) ==
    /\ ~IsNaN(a) /\ ~IsNaN(b)
    /\ IF IsInf(a) THEN a[1] > 0 /\ b # a
       ELSE IF IsInf(b) THEN b[1] < 0
       ELSE a[1] * Abs(b[2]) > b[1] * Abs(a[2])

\* a === b
FEq(a, b) == ~IsNaN(a) /\ ~IsNaN(b) /\ (a = b \/ (IsZero(a) /\ IsZero(b)))

\* the number n
Num(n) == <<n, 1>>

Point(x, y) == [x |-> Num(x), y |-> Num(y)]

(***************************************************************************)
(* mask-transform.ts and perspective-canvas.ts: the DLT solver.  Arrays    *)
(* are sequences, so index i of the source is index i + 1 here.            *)
(***************************************************************************)
\* the pivot search of solveLinearSystem for column col, from row on
RECURSIVE FindPivot(_, _, _, _)
FindPivot(augmented, col, row, maxRow) ==
    IF row > Len(augmented) THEN maxRow
    ELSE FindPivot(augmented, col, row + 1,
                   IF FGt(FAbs(augmented[row][col]), FAbs(augmented[maxRow][col]))
                   THEN row ELSE maxRow)

\* one pass of the inner elimination loop: row minus factor times the pivot row
EliminateRow(augmented, col, row) ==
    LET factor == FDiv(augmented[row][col], augmented[col][col])
        newRow == [j \in 1 .. Len(augmented) + 1 |->
                      IF j < col THEN augmented[row][j]
                      ELSE FSub(augmented[row][j], FMul(factor, augmented[col][j]))]
    IN  Strict(newRow, [augmented EXCEPT ![row] = newRow])

RECURSIVE EliminateBelow(_, _, _)
EliminateBelow(augmented, col, row) ==
    IF row > Len(augmented) THEN augmented
    ELSE LET next == EliminateRow(augmented, col, row)
         IN  Strict(next, EliminateBelow(next, col, row + 1))

\* forward elimination with partial pivoting, from column col on
RECURSIVE ForwardElimination(_, _)
ForwardElimination(augmented, col) ==
    IF col > Len(augmented) THEN augmented
    ELSE LET maxRow == FindPivot(augmented, col, col + 1, col)
             swapped == [augmented EXCEPT ![col] = augmented[maxRow],
                                          ![maxRow] = augmented[col]]
             next == EliminateBelow(swapped, col, col + 1)
         IN  Strict(next, ForwardElimination(next, col + 1))

\* x[i] minus the terms augmented[i][j] * x[j] for j from j on
RECURSIVE SubtractTerms(_, _, _, _, _)
SubtractTerms(augmented, x, i, j, acc) ==
    IF j > Len(augmented) THEN acc
    ELSE SubtractTerms(augmented, x, i, j + 1, FSub(acc, FMul(augmented[i][j], x[j])))

\* back substitution, from row i up
RECURSIVE BackSubstitution(_, _, _)
BackSubstitution(augmented, x, i) ==
    IF i < 1 THEN x
    ELSE LET n == Len(augmented)
             xi == FDiv(SubtractTerms(augmented, x, i, i + 1, augmented[i][n + 1]),
                        augmented[i][i])
             next == [x EXCEPT ![i] = xi]
         IN  Strict(next, BackSubstitution(augmented, next, i - 1))

\* solveLinearSystem(A, b)
solveLinearSystem(A, b) ==
    LET n == Len(b)
        augmented == [i \in 1 .. n |-> Append(A[i], b[i])]
    IN  BackSubstitution(ForwardElimination(augmented, 1), [i \in 1 .. n |-> Num(0)], n)

\* the corners of a quad in the order topLeft, topRight, bottomRight, bottomLeft
Corners(quad) == <<quad.topLeft, quad.topRight, quad.bottomRight, quad.bottomLeft>>

\* the 8x8 DLT matrix: two rows for each pair of points
DLTMatrix(s, d) ==
    [r \in 1 .. 8 |->
        LET i == (r + 1) \div 2
        IN  IF r % 2 = 1
            THEN <<s[i].x, s[i].y, Num(1), Num(0), Num(0), Num(0),
                   FMul(FNeg(d[i].x), s[i].x), FMul(FNeg(d[i].x), s[i].y)>>
            ELSE <<Num(0), Num(0), Num(0), s[i].x, s[i].y, Num(1),
                   FMul(FNeg(d[i].y), s[i].x), FMul(FNeg(d[i].y), s[i].y)>>]

DLTRightHandSide(d) == <<d[1].x, d[1].y, d[2].x, d[2].y, d[3].x, d[3].y, d[4].x, d[4].y>>

\* mask-transform.ts computeHomographyQuadToQuad(src, dst): a row-major 3x3 matrix
computeHomographyQuadToQuad(src, dst) ==
    Append(solveLinearSystem(DLTMatrix(Corners(src), Corners(dst)),
                             DLTRightHandSide(Corners(dst))), Num(1))

unitSquare == [topLeft |-> Point(0, 0), topRight |-> Point(1, 0),
               bottomRight |-> Point(1, 1), bottomLeft |-> Point(0, 1)]

\* perspective-canvas.ts computeHomography(quad): the unit square to quad
computeHomography(quad) ==
    Append(solveLinearSystem(DLTMatrix(Corners(unitSquare), Corners(quad)),
                             DLTRightHandSide(Corners(quad))), Num(1))

\* the determinant computed by both invertHomography functions
Determinant(H) ==
    FAdd(FSub(FMul(H[1], FSub(FMul(H[5], H[9]), FMul(H[6], H[8]))),
              FMul(H[2], FSub(FMul(H[4], H[9]), FMul(H[6], H[7])))),
         FMul(H[3], FSub(FMul(H[4], H[8]), FMul(H[5], H[7]))))

\* mask-transform.ts invertHomography(H): the row-major adjugate over the determinant
maskInvertHomography(H) ==
    LET det == Determinant(H)
    IN  <<FDiv(FSub(FMul(H[5], H[9]), FMul(H[6], H[8])), det),
          FDiv(FSub(FMul(H[3], H[8]), FMul(H[2], H[9])), det),
          FDiv(FSub(FMul(H[2], H[6]), FMul(H[3], H[5])), det),
          FDiv(FSub(FMul(H[6], H[7]), FMul(H[4], H[9])), det),
          FDiv(FSub(FMul(H[1], H[9]), FMul(H[3], H[7])), det),
          FDiv(FSub(FMul(H[3], H[4]), FMul(H[1], H[6])), det),
          FDiv(FSub(FMul(H[4], H[8]), FMul(H[5], H[7])), det),
          FDiv(FSub(FMul(H[2], H[7]), FMul(H[1], H[8])), det),
          FDiv(FSub(FMul(H[1], H[5]), FMul(H[2], H[4])), det)>>

\* a mutation of invertHomography: the inverse is handed over in row-major order
invertHomographyRowMajor(H) == maskInvertHomography(H)

\* perspective-canvas.ts invertHomography(H, width, height): the same inverse, in
\* column-major order for uniformMatrix3fv; width and height are not used
invertHomography(H) ==
    LET invH == maskInvertHomography(H)
    IN  <<invH[1], invH[4], invH[7], invH[2], invH[5], invH[8], invH[3], invH[6], invH[9]>>

\* the rows of a flat row-major matrix, as homography.ts takes them
Rows(H) == <<<<H[1], H[2], H[3]>>, <<H[4], H[5], H[6]>>, <<H[7], H[8], H[9]>>>>

\* a mutation of transformPoint: H is read column by column
transformPointTransposed(point, H) ==
    LET w == FAdd(FAdd(FMul(H[1][3], point.x), FMul(H[2][3], point.y)), H[3][3])
    IN  [x |-> FDiv(FAdd(FAdd(FMul(H[1][1], point.x), FMul(H[2][1], point.y)), H[3][1]), w),
         y |-> FDiv(FAdd(FAdd(FMul(H[1][2], point.x), FMul(H[2][2], point.y)), H[3][2]), w)]

\* homography.ts transformPoint(point, H)
transformPoint(point, H) ==
    LET w == FAdd(FAdd(FMul(H[3][1], point.x), FMul(H[3][2], point.y)), H[3][3])
    IN  [x |-> FDiv(FAdd(FAdd(FMul(H[1][1], point.x), FMul(H[1][2], point.y)), H[1][3]), w),
         y |-> FDiv(FAdd(FAdd(FMul(H[2][1], point.x), FMul(H[2][2], point.y)), H[2][3]), w)]

\* the fragment shader of perspective-canvas.ts: the column-major uniform m times
\* (pixel, 1), then the division by the third coordinate
shaderSourceCoord(m, pixel) ==
    LET hx == FAdd(FAdd(FMul(m[1], pixel.x), FMul(m[4], pixel.y)), FMul(m[7], Num(1)))
        hy == FAdd(FAdd(FMul(m[2], pixel.x), FMul(m[5], pixel.y)), FMul(m[8], Num(1)))
        hz == FAdd(FAdd(FMul(m[3], pixel.x), FMul(m[6], pixel.y)), FMul(m[9], Num(1)))
    IN  [x |-> FDiv(hx, hz), y |-> FDiv(hy, hz)]

Quad(tl, tr, br, bl) ==
    [topLeft |-> Point(tl[1], tl[2]), topRight |-> Point(tr[1], tr[2]),
     bottomRight |-> Point(br[1], br[2]), bottomLeft |-> Point(bl[1], bl[2])]

\* quads of each shape: square, rectangle, trapezoid, parallelogram, general convex,
\* mirrored, concave, self-intersecting, three corners on a line, two corners equal
QuadSamples ==
    { unitSquare,
      Quad(<<0, 0>>, <<3, 0>>, <<3, 2>>, <<0, 2>>),
      Quad(<<1, 1>>, <<2, 1>>, <<3, 3>>, <<0, 3>>),
      Quad(<<0, 0>>, <<2, 0>>, <<3, 2>>, <<1, 2>>),
      Quad(<<1, 0>>, <<3, 1>>, <<3, 3>>, <<0, 2>>),
      Quad(<<3, 0>>, <<0, 0>>, <<0, 2>>, <<3, 3>>),
      Quad(<<0, 0>>, <<3, 0>>, <<1, 1>>, <<0, 3>>),
      Quad(<<0, 0>>, <<1, 0>>, <<0, 1>>, <<1, 1>>),
      Quad(<<0, 0>>, <<1, 0>>, <<2, 0>>, <<0, 1>>),
      Quad(<<0, 0>>, <<0, 0>>, <<1, 1>>, <<0, 1>>) }

\* the camera quad of four detected markers and the projector rectangle it maps to
MarkerQuad == Quad(<<100, 80>>, <<500, 80>>, <<500, 400>>, <<100, 400>>)
ProjectorQuad == Quad(<<0, 0>>, <<1920, 0>>, <<1920, 1080>>, <<0, 1080>>)

InitHomography ==
    /\ \/ srcQuad \in QuadSamples /\ dstQuad \in QuadSamples
       \/ srcQuad = MarkerQuad /\ dstQuad = ProjectorQuad
    /\ quadHomography = <<>>
    /\ quadInverse = <<>>
    /\ perspectiveDraw = <<>>
    /\ IdleClock
    /\ IdlePhotos
    /\ IdleClassifier
    /\ IdleClient
    /\ IdleCalibration
    /\ IdleWarp
    /\ IdleShapes
    /\ IdleGoLive
    /\ IdleProjection
    /\ IdleGenerator
    /\ IdleSam
    /\ IdlePerspective
    /\ IdleGpu
    /\ IdleHappyBirthday
    /\ IdleSpotlight
    /\ IdleControl
    /\ IdleSync
    /\ IdleClear
    /\ IdleServer
    /\ IdleMasks
    /\ IdleLoops

\* mask-transform.ts: H = computeHomographyQuadToQuad(src, dst)
ComputeQuadToQuad ==
    /\ quadHomography = <<>>
    /\ quadHomography' = <<computeHomographyQuadToQuad(srcQuad, dstQuad)>>
    /\ UNCHANGED <<srcQuad, dstQuad, quadInverse, perspectiveDraw, outsideHomography>>

\* mask-transform.ts: invertHomography(H)
InvertQuadHomography ==
    /\ quadHomography # <<>>
    /\ quadInverse = <<>>
    /\ quadInverse' = <<maskInvertHomography(quadHomography[1])>>
    /\ UNCHANGED <<srcQuad, dstQuad, quadHomography, perspectiveDraw, outsideHomography>>

\* perspective-canvas.ts drawPerspective(destCtx, sourceCanvas, destQuad); webgl tells
\* whether getOrCreateGLResources returns resources
drawPerspective(destQuad, webgl) ==
    IF ~webgl
    THEN [mode |-> "fallback", H |-> <<>>, Hinv |-> <<>>, drawArrays |-> 0]
    ELSE LET H == computeHomography(destQuad)
         IN  [mode |-> "webgl", H |-> H, Hinv |-> invertHomography(H), drawArrays |-> 1]

DrawPerspective(webgl) ==
    /\ perspectiveDraw = <<>>
    /\ perspectiveDraw' = <<drawPerspective(dstQuad, webgl)>>
    /\ UNCHANGED <<srcQuad, dstQuad, quadHomography, quadInverse, outsideHomography>>

NextHomography ==
    \/ ComputeQuadToQuad
    \/ InvertQuadHomography
    \/ \E webgl \in BOOLEAN : DrawPerspective(webgl)

SpecHomography == InitHomography /\ [][NextHomography]_vars

\* twice the signed area of the triangle a, b, c
Cross(a, b, c) ==
    FSub(FMul(FSub(b.x, a.x), FSub(c.y, a.y)), FMul(FSub(b.y, a.y), FSub(c.x, a.x)))

\* three of the four corners lie on a line (two equal corners included)
HasCollinearCorners(quad) ==
    LET c == Corners(quad)
    IN  \E i \in 1 .. 4 : \E j \in (i + 1) .. 4 : \E k \in (j + 1) .. 4 :
            IsZero(Cross(c[i], c[j], c[k]))

NonDegenerate(quad) == ~HasCollinearCorners(quad)

\* the corners, taken in order, turn the same way at every corner
Convex(quad) ==
    LET c == Corners(quad)
        turn(i) == SignOf(Cross(c[i], c[(i % 4) + 1], c[((i + 1) % 4) + 1]))
    IN  /\ NonDegenerate(quad)
        /\ \A i \in 1 .. 4 : turn(i) = turn(1)

SamePoint(p, q) == FEq(p.x, q.x) /\ FEq(p.y, q.y)

GridN == 2

\* the points of the unit square with coordinates k / GridN
UnitGrid == {[x |-> FDiv(Num(i), Num(GridN)), y |-> FDiv(Num(j), Num(GridN))] :
                i \in 0 .. GridN, j \in 0 .. GridN}

\* drawPerspective has computed H for the unit square and the inverse handed to the
\* shader: every grid point, mapped by H and then by the shader, is itself again
CanvasRoundTrip ==
    \A p \in UnitGrid :
        SamePoint(shaderSourceCoord(perspectiveDraw[1].Hinv,
                                    transformPoint(p, Rows(perspectiveDraw[1].H))), p)

\* the same for mask-transform's inverse of the matrix solved for the unit square
MaskRoundTrip ==
    \A p \in UnitGrid :
        SamePoint(transformPoint(transformPoint(p, Rows(quadHomography[1])),
                                 Rows(quadInverse[1])), p)

SingularSystemRejected ==
    HasCollinearCorners(srcQuad) => quadHomography = <<>>

(***************************************************************************)
(* C9: when the determinant of the homography is zero the inversion        *)
(* returns no inverse matrix and nothing is drawn with it.                 *)
(***************************************************************************)
SingularMatrixRejected ==
    /\ (perspectiveDraw # <<>> /\ perspectiveDraw[1].mode = "webgl"
            /\ IsZero(Determinant(perspectiveDraw[1].H)))
          => (perspectiveDraw[1].Hinv = <<>> /\ perspectiveDraw[1].drawArrays = 0)
    /\ (quadHomography # <<>> /\ IsZero(Determinant(quadHomography[1])))
          => quadInverse = <<>>

(***************************************************************************)
(* homography.ts: calculateHomography.  A result is a record of matrix,    *)
(* success and error; an absent error is <<>>.  The matrix the server      *)
(* computes is not modelled: it is the token ServerMatrix.                 *)
(***************************************************************************)
MinCorrespondences == 4
ServerMatrix == <<"matrix">>

Failure(message) == [matrix |-> <<>>, success |-> FALSE, error |-> <<message>>]

\* a mutation of calculateHomographyChecks: three pairs are enough
calculateHomographyChecksThree(cameraCorners, projectorCorners) ==
    IF Len(cameraCorners) # Len(projectorCorners)
    THEN <<Failure("Camera and projector corner counts must match")>>
    ELSE IF Len(cameraCorners) < MinCorrespondences - 1
         THEN <<Failure("Need at least 4 point correspondences")>>
         ELSE <<>>

\* the checks before the request: <<result>> if the call returns at once, <<>> if it
\* goes on to the request
calculateHomographyChecks(cameraCorners, projectorCorners) ==
    IF Len(cameraCorners) # Len(projectorCorners)
    THEN <<Failure("Camera and projector corner counts must match")>>
    ELSE IF Len(cameraCorners) < MinCorrespondences
         THEN <<Failure("Need at least 4 point correspondences")>>
         ELSE <<>>

\* what the server may answer: the fetch throws, a status that is not ok, or a body
ResponseSamples ==
    { [threw |-> TRUE, ok |-> FALSE, data |-> <<>>],
      [threw |-> FALSE, ok |-> FALSE, data |-> <<>>],
      [threw |-> FALSE, ok |-> TRUE,
       data |-> <<[matrix |-> ServerMatrix, success |-> TRUE, error |-> <<>>]>>],
      [threw |-> FALSE, ok |-> TRUE,
       data |-> <<[matrix |-> <<>>, success |-> FALSE, error |-> <<"Need at least 4 points">>]>>] }

\* a mutation of calculateHomographyResult: every answer counts as a success
calculateHomographyResultAlwaysSuccess(response) ==
    [matrix |-> ServerMatrix, success |-> TRUE, error |-> <<>>]

\* the result of calculateHomography once the request has been answered
calculateHomographyResult(response) ==
    IF response.threw THEN Failure("Request failed")
    ELSE IF ~response.ok THEN Failure("Server error")
    ELSE response.data[1]

MaxPoints == 6
MaxCalls == 2

\* a list of n points
PointList(n) == [k \in 1 .. n |-> [x |-> k, y |-> k]]

InitHomographyClient ==
    /\ homographyCall = <<>>
    /\ callsMade = 0
    /\ IdleClock
    /\ IdlePhotos
    /\ IdleClassifier
    /\ IdleHomography
    /\ IdleCalibration
    /\ IdleWarp
    /\ IdleShapes
    /\ IdleGoLive
    /\ IdleProjection
    /\ IdleGenerator
    /\ IdleSam
    /\ IdlePerspective
    /\ IdleGpu
    /\ IdleHappyBirthday
    /\ IdleSpotlight
    /\ IdleControl
    /\ IdleSync
    /\ IdleClear
    /\ IdleServer
    /\ IdleMasks
    /\ IdleLoops

\* calculateHomography(cameraCorners, projectorCorners) up to the await of the fetch
CalculateHomography(cameraCorners, projectorCorners) ==
    /\ callsMade < MaxCalls
    /\ homographyCall # <<>> => homographyCall[1].result # <<>>
    /\ callsMade' = callsMade + 1
    /\ LET checked == calculateHomographyChecks(cameraCorners, projectorCorners)
       IN  homographyCall' =
               <<[cameraCorners |-> cameraCorners, projectorCorners |-> projectorCorners,
                  requests |-> IF checked = <<>> THEN 1 ELSE 0,
                  result |-> checked]>>
    /\ UNCHANGED outsideClient

\* calculateHomography from the answer of the server on
HomographyResponse(response) ==
    /\ homographyCall # <<>>
    /\ homographyCall[1].result = <<>>
    /\ homographyCall' =
           <<[homographyCall[1] EXCEPT !.result = <<calculateHomographyResult(response)>>]>>
    /\ UNCHANGED <<callsMade, outsideClient>>

NextHomographyClient ==
    \/ \E n \in 0 .. MaxPoints, m \in 0 .. MaxPoints :
           CalculateHomography(PointList(n), PointList(m))
    \/ \E response \in ResponseSamples : HomographyResponse(response)

SpecHomographyClient == InitHomographyClient /\ [][NextHomographyClient]_vars

(***************************************************************************)
(* C8: a call of calculateHomography with fewer than 4 point pairs, or     *)
(* with lists of different lengths, returns a failure (success false,      *)
(* empty matrix, an error message) and sends no request.                   *)
(***************************************************************************)
TooFewPairsFailWithoutRequest ==
    \A k \in 1 .. Len(homographyCall) :
        LET c == homographyCall[k]
        IN  (Len(c.cameraCorners) # Len(c.projectorCorners) \/ Len(c.cameraCorners) < 4) =>
                /\ c.requests = 0
                /\ c.result # <<>>
                /\ c.result[1].success = FALSE
                /\ c.result[1].matrix = <<>>
                /\ c.result[1].error # <<>>

\* a call with three pairs has returned
TooFewPairsFailWithoutRequestWitness ==
    /\ homographyCall # <<>>
    /\ Len(homographyCall[1].cameraCorners) = 3
    /\ Len(homographyCall[1].projectorCorners) = 3
    /\ homographyCall[1].requests = 0
    /\ homographyCall[1].result # <<>>
    /\ homographyCall[1].result[1].success = FALSE

(***************************************************************************)
(* homography.ts and routes/control/+page.svelte: the calibration flow.    *)
(* A detected marker is a record of id and corners; the corners seen by    *)
(* the camera are sample values.                                           *)
(***************************************************************************)
PROJECTOR_WIDTH == 1920
PROJECTOR_HEIGHT == 1080
DefaultMarkerSize == 96
DefaultMargin == 16

\* the four corners TL, TR, BR, BL of a marker whose top-left corner is (mx, my)
MarkerCorners(mx, my, markerSize) ==
    <<[x |-> mx, y |-> my], [x |-> mx + markerSize, y |-> my],
      [x |-> mx + markerSize, y |-> my + markerSize], [x |-> mx, y |-> my + markerSize]>>

\* getProjectorMarkerPositions(projectorWidth, projectorHeight, markerSize, margin):
\* a map from the ids 0 .. 3 to corners
getProjectorMarkerPositions(projectorWidth, projectorHeight, markerSize, margin) ==
    [id \in 0 .. 3 |->
        MarkerCorners(IF id \in {0, 2} THEN margin ELSE projectorWidth - margin - markerSize,
                      IF id \in {0, 1} THEN margin ELSE projectorHeight - margin - markerSize,
                      markerSize)]

\* buildPointCorrespondences(detectedMarkers, projectorPositions), from marker k on
RECURSIVE buildPointCorrespondencesFrom(_, _, _)
buildPointCorrespondencesFrom(markers, projectorPositions, k) ==
    IF k > Len(markers) THEN [cameraPoints |-> <<>>, projectorPoints |-> <<>>]
    ELSE LET rest == buildPointCorrespondencesFrom(markers, projectorPositions, k + 1)
         IN  IF markers[k].id \notin DOMAIN projectorPositions THEN rest
             ELSE [cameraPoints |-> markers[k].corners \o rest.cameraPoints,
                   projectorPoints |-> projectorPositions[markers[k].id] \o rest.projectorPoints]

buildPointCorrespondences(markers, projectorPositions) ==
    buildPointCorrespondencesFrom(markers, projectorPositions, 1)

\* the ids of the detected markers
FoundIds(markers) == {markers[k].id : k \in 1 .. Len(markers)}

\* markerMap.get(id): the last marker with this id
MarkerWithId(markers, id) ==
    markers[CHOOSE k \in 1 .. Len(markers) :
                /\ markers[k].id = id
                /\ \A j \in (k + 1) .. Len(markers) : markers[j].id # id]

\* extractCameraQuad(detectedMarkers): <<>> for null, <<quad>> otherwise
extractCameraQuad(markers) ==
    IF ~({0, 1, 2, 3} \subseteq FoundIds(markers)) THEN <<>>
    ELSE <<[topLeft |-> MarkerWithId(markers, 0).corners[1],
            topRight |-> MarkerWithId(markers, 1).corners[2],
            bottomLeft |-> MarkerWithId(markers, 2).corners[4],
            bottomRight |-> MarkerWithId(markers, 3).corners[3]]>>

\* a mutation of missingMarkers: no id is ever reported missing
missingMarkersNone(markers) == {}

\* captureAndDetect: the required ids that are not among the detected markers
missingMarkers(markers) == {id \in {0, 1, 2, 3} : id \notin FoundIds(markers)}

MaxMarkerId == 4
MaxCaptures == 2

\* the marker with this id as the camera sees it
CameraMarker(id) ==
    [id |-> id, corners |-> MarkerCorners(200 * id + 10, 100 * id + 10, 50)]

\* the elements of a set of ids in ascending order
RECURSIVE Ascending(_)
Ascending(S) ==
    IF S = {} THEN <<>> ELSE <<SetMin(S)>> \o Ascending(S \ {SetMin(S)})

\* what detectMarkers may come back with: it throws, or returns markers with or
\* without an error message
DetectionSamples ==
    {[threw |-> TRUE, markers |-> <<>>, error |-> <<>>],
     [threw |-> FALSE, markers |-> <<>>, error |-> <<"Server error">>]}
    \cup {[threw |-> FALSE,
           markers |-> [k \in 1 .. Cardinality(S) |-> CameraMarker(Ascending(S)[k])],
           error |-> <<>>] : S \in SUBSET (0 .. MaxMarkerId)}

InitCalibration ==
    /\ IdleCalibration
    /\ IdleClock
    /\ IdlePhotos
    /\ IdleClassifier
    /\ IdleHomography
    /\ IdleClient
    /\ IdleWarp
    /\ IdleShapes
    /\ IdleGoLive
    /\ IdleProjection
    /\ IdleGenerator
    /\ IdleSam
    /\ IdlePerspective
    /\ IdleGpu
    /\ IdleHappyBirthday
    /\ IdleSpotlight
    /\ IdleControl
    /\ IdleSync
    /\ IdleClear
    /\ IdleServer
    /\ IdleMasks
    /\ IdleLoops

\* captureAndDetect up to the await of detectMarkers; frameOk tells whether a frame
\* could be taken
CaptureAndDetect(frameOk) ==
    /\ ~isCapturing
    /\ captureCount < MaxCaptures
    /\ captureCount' = captureCount + 1
    /\ detectionError' = IF frameOk THEN <<>>
                         ELSE <<"Failed to capture webcam frame. Is the camera ready?">>
    /\ isCapturing' = frameOk
    /\ capturePhase' = IF frameOk THEN "detecting" ELSE "idle"
    /\ lastCapture' = <<[frame |-> frameOk, detected |-> FALSE, markers |-> <<>>,
                         requests |-> 0, response |-> <<>>, matrix |-> <<>>,
                         stored |-> <<>>, error |-> detectionError']>>
    /\ UNCHANGED <<detectedMarkers, calibrationComplete, pendingCalibration, calibration,
                   outsideCalibration>>

\* captureAndDetect from the answer of detectMarkers to its return or to the await
\* of the request that calculateHomography sends
DetectionResolves(result) ==
    /\ capturePhase = "detecting"
    /\ IF result.threw
       THEN /\ detectionError' = <<"Detection failed">>
            /\ lastCapture' = <<[lastCapture[1] EXCEPT !.error = detectionError']>>
            /\ capturePhase' = "idle"
            /\ isCapturing' = FALSE
            /\ UNCHANGED detectedMarkers
       ELSE /\ detectedMarkers' = result.markers
            /\ LET correspondences ==
                       buildPointCorrespondences(
                           detectedMarkers',
                           getProjectorMarkerPositions(PROJECTOR_WIDTH, PROJECTOR_HEIGHT,
                                                       DefaultMarkerSize, DefaultMargin))
                   checked == calculateHomographyChecks(correspondences.cameraPoints,
                                                        correspondences.projectorPoints)
                   error ==
                       IF Len(detectedMarkers') = 0
                       THEN (IF result.error # <<>> THEN result.error
                             ELSE <<"No markers detected">>)
                       ELSE IF missingMarkers(detectedMarkers') # {}
                            THEN <<"Missing markers">>
                            ELSE IF checked # <<>> THEN checked[1].error ELSE <<>>
               IN  /\ detectionError' = IF error # <<>> THEN error ELSE detectionError
                   /\ capturePhase' = IF error # <<>> THEN "idle" ELSE "solving"
                   /\ isCapturing' = (error = <<>>)
                   /\ lastCapture' =
                          <<[lastCapture[1] EXCEPT !.detected = TRUE,
                                                   !.markers = result.markers,
                                                   !.requests = IF error = <<>> THEN 1 ELSE 0,
                                                   !.error = error]>>
    /\ UNCHANGED <<calibrationComplete, pendingCalibration, calibration, captureCount,
                   outsideCalibration>>

\* calculateAndStoreHomography from the answer of the homography server to its return
\* or to the await of updateState
HomographyResolves(response) ==
    /\ capturePhase = "solving"
    /\ LET result == calculateHomographyResult(response)
           quad == extractCameraQuad(detectedMarkers)
           error == IF ~result.success
                    THEN (IF result.error # <<>> THEN result.error
                          ELSE <<"Homography calculation failed">>)
                    ELSE IF quad = <<>>
                         THEN <<"Failed to extract camera quad from markers">>
                         ELSE <<>>
       IN  /\ detectionError' = IF error # <<>> THEN error ELSE detectionError
           /\ capturePhase' = IF error # <<>> THEN "idle" ELSE "storing"
           /\ isCapturing' = (error = <<>>)
           /\ pendingCalibration' =
                  IF error # <<>> THEN <<>>
                  ELSE <<[status |-> "complete", homography |-> result.matrix,
                          cameraQuad |-> quad[1]]>>
           /\ lastCapture' =
                  <<[lastCapture[1] EXCEPT !.response = <<response>>,
                                           !.matrix = result.matrix,
                                           !.error = error]>>
    /\ UNCHANGED <<detectedMarkers, calibrationComplete, calibration, captureCount,
                   outsideCalibration>>

\* calculateAndStoreHomography from the answer of updateState on: the state server
\* took the calibration ("ok"), refused it ("refused"), or the fetch threw ("threw")
StateUpdated(outcome) ==
    /\ capturePhase = "storing"
    /\ calibration' = IF outcome = "ok" THEN pendingCalibration[1] ELSE calibration
    /\ calibrationComplete' = IF outcome = "threw" THEN calibrationComplete ELSE TRUE
    /\ detectionError' = IF outcome = "threw" THEN <<"Detection failed">> ELSE detectionError
    /\ pendingCalibration' = <<>>
    /\ capturePhase' = "idle"
    /\ isCapturing' = FALSE
    /\ lastCapture' = <<[lastCapture[1] EXCEPT
                           !.stored = IF outcome = "ok" THEN pendingCalibration ELSE <<>>,
                           !.error = IF outcome = "threw" THEN detectionError' ELSE @]>>
    /\ UNCHANGED <<detectedMarkers, captureCount, outsideCalibration>>

\* stopCalibration, with the state server taking the update
StopCalibration ==
    /\ detectedMarkers' = <<>>
    /\ detectionError' = <<>>
    /\ calibrationComplete' = FALSE
    /\ calibration' = [status |-> "none"]
    /\ UNCHANGED <<isCapturing, capturePhase, pendingCalibration, captureCount, lastCapture,
                   outsideCalibration>>

NextCalibration ==
    \/ \E frameOk \in BOOLEAN : CaptureAndDetect(frameOk)
    \/ \E result \in DetectionSamples : DetectionResolves(result)
    \/ \E response \in ResponseSamples : HomographyResolves(response)
    \/ \E outcome \in {"ok", "refused", "threw"} : StateUpdated(outcome)
    \/ StopCalibration

SpecCalibration == InitCalibration /\ [][NextCalibration]_vars

(***************************************************************************)
(* C10: when the detected markers lack one of the required ids 0 .. 3, a   *)
(* single detected marker included, the capture is rejected as a failure:  *)
(* no homography request is made and no matrix is produced.                *)
(***************************************************************************)
DetectionShortfallRejected ==
    (lastCapture # <<>> /\ lastCapture[1].detected
        /\ ~({0, 1, 2, 3} \subseteq FoundIds(lastCapture[1].markers))) =>
            /\ lastCapture[1].requests = 0
            /\ lastCapture[1].matrix = <<>>
            /\ lastCapture[1].error # <<>>
            /\ capturePhase = "idle"
            /\ pendingCalibration = <<>>

\* a single marker, whose four corners give four point pairs, has been rejected
DetectionShortfallRejectedWitness ==
    /\ lastCapture # <<>> /\ lastCapture[1].detected
    /\ Len(lastCapture[1].markers) = 1
    /\ lastCapture[1].markers[1].id = 0
    /\ Len(buildPointCorrespondences(
               lastCapture[1].markers,
               getProjectorMarkerPositions(PROJECTOR_WIDTH, PROJECTOR_HEIGHT,
                                           DefaultMarkerSize, DefaultMargin)).cameraPoints) = 4
    /\ lastCapture[1].requests = 0
    /\ detectionError = <<"Missing markers">>

(***************************************************************************)
(* C11: a calibration capture that fails at any step (no frame, no markers *)
(* detected, a required marker id missing, homography failure, no camera   *)
(* quad) writes nothing to the shared calibration state: it sends no       *)
(* update, has none pending, and so sets neither status 'complete' nor a   *)
(* homography nor a cameraQuad.                                            *)
(***************************************************************************)
\* the inputs of the last capture make it fail at one of the steps listed
CaptureFailed ==
    /\ lastCapture # <<>>
    /\ \/ ~lastCapture[1].frame
       \/ /\ lastCapture[1].detected
          /\ \/ Len(lastCapture[1].markers) = 0
             \/ ~({0, 1, 2, 3} \subseteq FoundIds(lastCapture[1].markers))
             \/ extractCameraQuad(lastCapture[1].markers) = <<>>
       \/ /\ lastCapture[1].response # <<>>
          /\ \/ lastCapture[1].response[1].threw
             \/ ~lastCapture[1].response[1].ok
             \/ ~lastCapture[1].response[1].data[1].success

FailedCaptureWritesNothing ==
    CaptureFailed =>
        /\ lastCapture[1].stored = <<>>
        /\ pendingCalibration = <<>>
        /\ capturePhase = "idle"
        /\ ~isCapturing
        /\ lastCapture[1].error # <<>>

\* a second capture has failed at the homography step after a first one completed
\* the calibration, and the completed calibration is still the shared state
FailedCaptureWritesNothingWitness ==
    /\ CaptureFailed
    /\ captureCount = 2
    /\ lastCapture[1].response # <<>>
    /\ calibration.status = "complete"

(***************************************************************************)
(* mask-transform.ts and perspective-canvas.ts: the rasters of the warp.   *)
(* A raster is a record of width, height and pixels, a function from the   *)
(* index y * width + x to a pixel [c, a]: one colour channel and alpha,    *)
(* both in 0 .. 255 (the three colour channels of every pixel written here *)
(* are equal).  Pixel (x, y) is shaded at its centre (x + 1/2, y + 1/2).   *)
(* The conversion of uniforms to 32-bit floats is not modelled.            *)
(***************************************************************************)
Transparent == [c |-> 0, a |-> 0]
White == [c |-> Opaque, a |-> Opaque]

\* a < b
FLt(a, b) == FGt(b, a)

\* Math.floor of a finite number
Floor(a) == IF a[1] = 0 THEN 0 ELSE a[1] \div a[2]

\* a channel value written to an 8-bit buffer: rounded to the nearest integer
Round8(a) == Floor(FAdd(a, <<1, 2>>))

Clamp(i, lo, hi) == IF i < lo THEN lo ELSE IF i > hi THEN hi ELSE i

Texel(raster, i, j) == raster.pixels[j * raster.width + i]

\* the centre of pixel (x, y)
PixelCentre(x, y) == [x |-> <<2 * x + 1, 2>>, y |-> <<2 * y + 1, 2>>]

\* one channel of texture2D(u_texture, uv) for a texture with the parameters set at
\* mask-transform.ts 274-277 and perspective-canvas.ts 199-202: LINEAR filtering,
\* CLAMP_TO_EDGE; the value is on the scale 0 .. 255
BilinearChannel(raster, uv, channel) ==
    LET fx == FSub(FMul(uv.x, Num(raster.width)), <<1, 2>>)
        fy == FSub(FMul(uv.y, Num(raster.height)), <<1, 2>>)
        i0 == Floor(fx)
        j0 == Floor(fy)
        tx == FSub(fx, Num(i0))
        ty == FSub(fy, Num(j0))
        ia == Clamp(i0, 0, raster.width - 1)
        ib == Clamp(i0 + 1, 0, raster.width - 1)
        ja == Clamp(j0, 0, raster.height - 1)
        jb == Clamp(j0 + 1, 0, raster.height - 1)
        v(i, j) == Num(Texel(raster, i, j)[channel])
        mix(p, q, t) == FAdd(FMul(p, FSub(Num(1), t)), FMul(q, t))
    IN  mix(mix(v(ia, ja), v(ib, ja), tx), mix(v(ia, jb), v(ib, jb), tx), ty)

\* texture2D(u_texture, uv); a coordinate that is NaN gives the sample undef, since
\* the shading language leaves the result open
texture2D(raster, uv, undef) ==
    IF IsNaN(uv.x) \/ IsNaN(uv.y) \/ IsInf(uv.x) \/ IsInf(uv.y)
    THEN [c |-> Num(undef.c), a |-> Num(undef.a)]
    ELSE [c |-> BilinearChannel(raster, uv, "c"), a |-> BilinearChannel(raster, uv, "a")]

\* a mutation of OutOfTexture: only coordinates below 0 are rejected
OutOfTextureBelowOnly(uv) ==
    FLt(uv.x, Num(0)) \/ FLt(uv.y, Num(0))

\* the bounds test of both fragment shaders (mask-transform.ts 212,
\* perspective-canvas.ts 160)
OutOfTexture(uv) ==
    FLt(uv.x, Num(0)) \/ FGt(uv.x, Num(1)) \/ FLt(uv.y, Num(0)) \/ FGt(uv.y, Num(1))

\* mask-transform.ts toColumnMajor(m)
toColumnMajor(m) == <<m[1], m[4], m[7], m[2], m[5], m[8], m[3], m[6], m[9]>>

\* mask-transform.ts multiplyMatrices(a, b), both row-major
multiplyMatrices(a, b) ==
    [k \in 1 .. 9 |->
        LET r == (k - 1) \div 3
            c == (k - 1) % 3
        IN  FAdd(FAdd(FMul(a[3 * r + 1], b[c + 1]), FMul(a[3 * r + 2], b[c + 4])),
                 FMul(a[3 * r + 3], b[c + 7]))]

\* the alpha threshold of the mask shader: alpha > 0.1, alpha being on the scale 0 .. 1
AboveThreshold(alpha) == FGt(FMul(alpha, Num(10)), Num(Opaque))

\* the fragment shader of transformMaskToProjector (mask-transform.ts 206-228)
maskFragment(raster, m, pixel, undef) ==
    LET uv == shaderSourceCoord(m, pixel)
    IN  IF OutOfTexture(uv) THEN Transparent
        ELSE IF AboveThreshold(texture2D(raster, uv, undef).a) THEN White
             ELSE Transparent

\* the fragment shader of perspective-canvas.ts (154-165): discard leaves the pixel as
\* gl.clear left it
perspectiveFragment(raster, m, pixel, undef) ==
    LET uv == shaderSourceCoord(m, pixel)
        sample == texture2D(raster, uv, undef)
    IN  IF OutOfTexture(uv) THEN Transparent
        ELSE [c |-> Round8(sample.c), a |-> Round8(sample.a)]

\* the smallest and the largest of the four corner coordinates
RECURSIVE FMinOf(_)
FMinOf(list) ==
    IF Len(list) = 1 THEN list[1]
    ELSE LET rest == FMinOf(Tail(list))
         IN  IF FLt(list[1], rest) THEN list[1] ELSE rest

RECURSIVE FMaxOf(_)
FMaxOf(list) ==
    IF Len(list) = 1 THEN list[1]
    ELSE LET rest == FMaxOf(Tail(list))
         IN  IF FGt(list[1], rest) THEN list[1] ELSE rest

BoundingBox(quad) ==
    LET c == Corners(quad)
    IN  [minX |-> FMinOf([k \in 1 .. 4 |-> c[k].x]), maxX |-> FMaxOf([k \in 1 .. 4 |-> c[k].x]),
         minY |-> FMinOf([k \in 1 .. 4 |-> c[k].y]), maxY |-> FMaxOf([k \in 1 .. 4 |-> c[k].y])]

\* the pixel of an image that drawImage copies for the image coordinate (sx, sy):
\* nothing outside the image; inside it the pixel that contains the coordinate (the
\* smoothing filter of drawImage is left to the browser)
ImagePixel(raster, sx, sy) ==
    IF FLt(sx, Num(0)) \/ FLt(sy, Num(0))
       \/ ~FLt(sx, Num(raster.width)) \/ ~FLt(sy, Num(raster.height))
    THEN Transparent
    ELSE Texel(raster, Floor(sx), Floor(sy))

\* mask-transform.ts fallbackTransform(maskImage, cameraQuad): the bounding box of the
\* quad is cropped from the image and stretched over the whole output
fallbackTransform(maskImage, cameraQuad, width, height) ==
    LET box == BoundingBox(cameraQuad)
        sw == FSub(box.maxX, box.minX)
        sh == FSub(box.maxY, box.minY)
    IN  [width |-> width, height |-> height,
         pixels |->
            [k \in 0 .. width * height - 1 |->
                LET centre == PixelCentre(k % width, k \div width)
                IN  IF IsZero(sw) \/ IsZero(sh) THEN Transparent
                    ELSE ImagePixel(maskImage,
                                    FAdd(box.minX, FDiv(FMul(centre.x, sw), Num(width))),
                                    FAdd(box.minY, FDiv(FMul(centre.y, sh), Num(height))))]]

\* what creating the WebGL context, the shaders and the program may come to
GLOutcomes == {"webgl", "no context", "no shader", "no program", "link failed"}

\* mask-transform.ts transformMaskToProjector(maskImage, cameraQuad) for an output of
\* width x height and a camera image of the size of maskImage
transformMaskToProjector(maskImage, cameraQuad, outcome, undef, width, height) ==
    IF outcome # "webgl"
    THEN [path |-> "fallback", raster |-> fallbackTransform(maskImage, cameraQuad, width, height),
          combined |-> <<>>]
    ELSE LET projectorRect == [topLeft |-> Point(0, 0), topRight |-> Point(width, 0),
                               bottomLeft |-> Point(0, height),
                               bottomRight |-> Point(width, height)]
             H == computeHomographyQuadToQuad(projectorRect, cameraQuad)
             scaleMatrix == <<FDiv(Num(1), Num(maskImage.width)), Num(0), Num(0),
                              Num(0), FDiv(Num(1), Num(maskImage.height)), Num(0),
                              Num(0), Num(0), Num(1)>>
             combined == multiplyMatrices(scaleMatrix, H)
             combinedColMajor == toColumnMajor(combined)
         IN  [path |-> "webgl",
              raster |-> [width |-> width, height |-> height,
                          pixels |-> [k \in 0 .. width * height - 1 |->
                                         maskFragment(maskImage, combinedColMajor,
                                                      PixelCentre(k % width, k \div width),
                                                      undef)]],
              combined |-> <<combinedColMajor>>]

\* the point lies inside the path topLeft, topRight, bottomRight, bottomLeft: a ray
\* to the right crosses an odd number of its sides
InsideQuad(quad, point) ==
    LET c == Corners(quad)
        crosses(p, q) ==
            /\ FGt(p.y, point.y) # FGt(q.y, point.y)
            /\ FLt(point.x, FAdd(p.x, FDiv(FMul(FSub(point.y, p.y), FSub(q.x, p.x)),
                                           FSub(q.y, p.y))))
    IN  Cardinality({k \in 1 .. 4 : crosses(c[k], c[(k % 4) + 1])}) % 2 = 1

\* perspective-canvas.ts fallbackDraw(ctx, source, quad): the whole source is drawn
\* over the bounding box of the quad, clipped to the quad
fallbackDraw(source, quad, width, height) ==
    LET box == BoundingBox(quad)
        dw == FSub(box.maxX, box.minX)
        dh == FSub(box.maxY, box.minY)
    IN  [width |-> width, height |-> height,
         pixels |->
            [k \in 0 .. width * height - 1 |->
                LET centre == PixelCentre(k % width, k \div width)
                IN  IF IsZero(dw) \/ IsZero(dh) \/ ~InsideQuad(quad, centre) THEN Transparent
                    ELSE ImagePixel(source,
                                    FDiv(FMul(FSub(centre.x, box.minX), Num(source.width)), dw),
                                    FDiv(FMul(FSub(centre.y, box.minY), Num(source.height)), dh))]]

\* perspective-canvas.ts drawPerspective(destCtx, sourceCanvas, destQuad) on a clear
\* destination of width x height: what the destination holds afterwards
drawPerspectiveRaster(sourceCanvas, destQuad, webgl, undef, width, height) ==
    IF ~webgl
    THEN [path |-> "fallback", raster |-> fallbackDraw(sourceCanvas, destQuad, width, height),
          Hinv |-> <<>>]
    ELSE LET Hinv == drawPerspective(destQuad, TRUE).Hinv
         IN  [path |-> "webgl",
              raster |-> [width |-> width, height |-> height,
                          pixels |-> [k \in 0 .. width * height - 1 |->
                                         perspectiveFragment(sourceCanvas, Hinv,
                                                             PixelCentre(k % width, k \div width),
                                                             undef)]],
              Hinv |-> <<Hinv>>]

\* the size of the output raster and of the source raster
WarpWidth == 3
WarpHeight == 3
SourceWidth == 2
SourceHeight == 2

\* source pixels: transparent, just below and just above the alpha threshold, opaque
PixelSamples ==
    {Transparent, [c |-> 200, a |-> 25], [c |-> 200, a |-> 26], White}

\* source rasters: two pixel values in a chequered pattern or in columns
RasterSamples ==
    {[width |-> SourceWidth, height |-> SourceHeight,
      pixels |-> [k \in 0 .. SourceWidth * SourceHeight - 1 |->
                     IF (IF columns THEN k % SourceWidth
                         ELSE (k % SourceWidth) + (k \div SourceWidth)) % 2 = 0
                     THEN p ELSE q]] :
        p \in PixelSamples, q \in PixelSamples, columns \in BOOLEAN}

InitWarp ==
    /\ warpSource \in RasterSamples
    /\ warpQuad \in QuadSamples
    /\ projectorMask = <<>>
    /\ perspectiveCanvas = <<>>
    /\ IdleClock
    /\ IdlePhotos
    /\ IdleClassifier
    /\ IdleHomography
    /\ IdleClient
    /\ IdleCalibration
    /\ IdleShapes
    /\ IdleGoLive
    /\ IdleProjection
    /\ IdleGenerator
    /\ IdleSam
    /\ IdlePerspective
    /\ IdleGpu
    /\ IdleHappyBirthday
    /\ IdleSpotlight
    /\ IdleControl
    /\ IdleSync
    /\ IdleClear
    /\ IdleServer
    /\ IdleMasks
    /\ IdleLoops

TransformMaskToProjector(outcome, undef) ==
    /\ projectorMask = <<>>
    /\ projectorMask' = <<transformMaskToProjector(warpSource, warpQuad, outcome, undef,
                                                   WarpWidth, WarpHeight)>>
    /\ UNCHANGED <<warpSource, warpQuad, perspectiveCanvas, outsideWarp>>

DrawPerspectiveRaster(webgl, undef) ==
    /\ perspectiveCanvas = <<>>
    /\ perspectiveCanvas' = <<drawPerspectiveRaster(warpSource, warpQuad, webgl, undef,
                                                    WarpWidth, WarpHeight)>>
    /\ UNCHANGED <<warpSource, warpQuad, projectorMask, outsideWarp>>

NextWarp ==
    \/ \E outcome \in GLOutcomes : \E undef \in {Transparent, White} :
           TransformMaskToProjector(outcome, undef)
    \/ \E webgl \in BOOLEAN : \E undef \in {Transparent, White} :
           DrawPerspectiveRaster(webgl, undef)

SpecWarp == InitWarp /\ [][NextWarp]_vars

(***************************************************************************)
(* C12: in the warp drawn by the shaders, every destination pixel whose    *)
(* mapped source coordinate lies outside [0,1] x [0,1] is fully            *)
(* transparent: it never holds a wrapped or edge-clamped sample of the     *)
(* source.  This is checked for the mask warp and for the perspective      *)
(* draw.                                                                   *)
(***************************************************************************)
\* the coordinate is a number outside the unit square in x or in y
OutsideUnitSquare(uv) ==
    \/ (~IsNaN(uv.x) /\ (FGt(Num(0), uv.x) \/ FGt(uv.x, Num(1))))
    \/ (~IsNaN(uv.y) /\ (FGt(Num(0), uv.y) \/ FGt(uv.y, Num(1))))

WarpPixels == 0 .. WarpWidth * WarpHeight - 1

\* the source coordinate the matrix of a finished hardware warp gives pixel k
MappedCoord(m, k) == shaderSourceCoord(m, PixelCentre(k % WarpWidth, k \div WarpWidth))

OutOfBoundsTransparent ==
    /\ (projectorMask # <<>> /\ projectorMask[1].path = "webgl") =>
          \A k \in WarpPixels :
              OutsideUnitSquare(MappedCoord(projectorMask[1].combined[1], k)) =>
                  projectorMask[1].raster.pixels[k] = Transparent
    /\ (perspectiveCanvas # <<>> /\ perspectiveCanvas[1].path = "webgl") =>
          \A k \in WarpPixels :
              OutsideUnitSquare(MappedCoord(perspectiveCanvas[1].Hinv[1], k)) =>
                  perspectiveCanvas[1].raster.pixels[k] = Transparent

\* both shaders have drawn an opaque source for a convex quad, and each has left
\* transparent a pixel that maps outside the source while another pixel is opaque
OutOfBoundsTransparentWitness ==
    /\ projectorMask # <<>> /\ projectorMask[1].path = "webgl"
    /\ perspectiveCanvas # <<>> /\ perspectiveCanvas[1].path = "webgl"
    /\ \A k \in DOMAIN warpSource.pixels : warpSource.pixels[k] = White
    /\ Convex(warpQuad) /\ NonDegenerate(warpQuad)
    /\ \E k \in WarpPixels :
           /\ OutsideUnitSquare(MappedCoord(projectorMask[1].combined[1], k))
           /\ projectorMask[1].raster.pixels[k] = Transparent
    /\ \E k \in WarpPixels : projectorMask[1].raster.pixels[k] = White
    /\ \E k \in WarpPixels :
           /\ OutsideUnitSquare(MappedCoord(perspectiveCanvas[1].Hinv[1], k))
           /\ perspectiveCanvas[1].raster.pixels[k] = Transparent
    /\ \E k \in WarpPixels : perspectiveCanvas[1].raster.pixels[k] = White

(***************************************************************************)
(* C13: every pixel of the raster transformMaskToProjector returns is      *)
(* either opaque white or fully transparent, and it is opaque white        *)
(* exactly when its mapped source coordinate is in bounds and the source   *)
(* alpha there is above the threshold 0.1, on every return path of the     *)
(* function (the hardware path and the four returns of the fallback).      *)
(***************************************************************************)
\* the uniform the hardware path computes for the source and quad of this warp
MaskMatrix ==
    transformMaskToProjector(warpSource, warpQuad, "webgl", Transparent,
                             WarpWidth, WarpHeight).combined[1]

\* pixel k is what the threshold rule says it must be; a pixel whose coordinate is
\* NaN is only required to be white or transparent
ThresholdPixel(pixel, k) ==
    LET uv == MappedCoord(MaskMatrix, k)
    IN  /\ pixel \in {White, Transparent}
        /\ (~IsNaN(uv.x) /\ ~IsNaN(uv.y)) =>
              (pixel = White <=>
                  /\ ~OutsideUnitSquare(uv)
                  /\ AboveThreshold(texture2D(warpSource, uv, Transparent).a))

MaskIsThresholded ==
    projectorMask # <<>> =>
        \A k \in WarpPixels : ThresholdPixel(projectorMask[1].raster.pixels[k], k)

(***************************************************************************)
(* C14: for every source raster and quad the fallback path of the warp,    *)
(* taken when WebGL, a shader or the program is unavailable, yields the    *)
(* same destination raster as the hardware path, pixel for pixel.  Pixels  *)
(* whose coordinate on the hardware path is NaN are left out of the        *)
(* comparison.                                                             *)
(***************************************************************************)
\* the two rasters agree wherever the matrix m gives a coordinate that is a number
SamePixels(raster, hardware, m) ==
    \A k \in WarpPixels :
        LET uv == MappedCoord(m, k)
        IN  (~IsNaN(uv.x) /\ ~IsNaN(uv.y)) => raster.pixels[k] = hardware.pixels[k]

FallbackMatchesHardware ==
    /\ (projectorMask # <<>> /\ projectorMask[1].path = "fallback") =>
          SamePixels(projectorMask[1].raster,
                     transformMaskToProjector(warpSource, warpQuad, "webgl", Transparent,
                                              WarpWidth, WarpHeight).raster,
                     MaskMatrix)
    /\ (perspectiveCanvas # <<>> /\ perspectiveCanvas[1].path = "fallback") =>
          LET hardware == drawPerspectiveRaster(warpSource, warpQuad, TRUE, Transparent,
                                                WarpWidth, WarpHeight)
          IN  SamePixels(perspectiveCanvas[1].raster, hardware.raster, hardware.Hinv[1])

(***************************************************************************)
(* island-detection.ts and projection-config.ts: the shape tests applied   *)
(* to one component, given by the width and height of its bounding box,    *)
(* its pixel count and the pixel count of the raster.  Ratios are exact    *)
(* rationals; the rounding of doubles is not modelled, and Math.PI is the  *)
(* fraction 355/113.                                                       *)
(***************************************************************************)
PI == <<355, 113>>

\* a mutation of the DEFAULT_CONFIG of detectPomPoms: the least circularity is 0.96
PomPomConfigStrict ==
    [minRadius |-> <<10, 1>>, maxRadius |-> <<100, 1>>, minCircularity |-> <<24, 25>>]

\* projection-config.ts DEFAULT_CONFIG of detectPomPoms
POMPOM_DEFAULT_CONFIG ==
    [minRadius |-> <<10, 1>>, maxRadius |-> <<100, 1>>, minCircularity |-> <<3, 5>>]

\* a >= b for fractions with positive denominators
FracGeq(a, b) == a[1] * b[2] >= b[1] * a[2]

\* a mutation of pomPomAspectOk: the aspect ratio is not tested
pomPomAspectAny(bboxWidth, bboxHeight) == TRUE

\* aspectRatio > 0.4 && aspectRatio < 2.5
pomPomAspectOk(bboxWidth, bboxHeight) ==
    /\ 5 * bboxWidth > 2 * bboxHeight
    /\ 2 * bboxWidth < 5 * bboxHeight

\* step 4 of detectPomPoms for one component: whether it is pushed, and the
\* PomPomInfo pushed
classifyPomPom(comp, cfg) ==
    LET bboxWidth == comp.maxX - comp.minX + 1
        bboxHeight == comp.maxY - comp.minY + 1
        estimatedRadius == <<bboxWidth + bboxHeight, 4>>
        \* pixelCount / (Math.PI * estimatedRadius * estimatedRadius)
        ratio == <<comp.pixelCount * PI[2] * 16,
                   PI[1] * (bboxWidth + bboxHeight) * (bboxWidth + bboxHeight)>>
        circularity == IF ratio[1] >= ratio[2] THEN <<1, 1>> ELSE ratio
        aspectOk == pomPomAspectOk(bboxWidth, bboxHeight)
        radiusOk == FracGeq(estimatedRadius, cfg.minRadius)
                    /\ FracGeq(cfg.maxRadius, estimatedRadius)
        circularityOk == FracGeq(circularity, cfg.minCircularity)
    IN  [pushed |-> radiusOk /\ circularityOk /\ aspectOk,
         center |-> [x |-> <<comp.sumX, comp.pixelCount>>, y |-> <<comp.sumY, comp.pixelCount>>],
         radius |-> estimatedRadius,
         pixelCount |-> comp.pixelCount,
         boundingBox |-> [minX |-> comp.minX, maxX |-> comp.maxX,
                          minY |-> comp.minY, maxY |-> comp.maxY],
         circularity |-> circularity]

\* bounding boxes: around the aspect limits of both tests and the radius limits
BoxSamples ==
    {<<60, 40>>, <<40, 60>>, <<45, 40>>, <<75, 40>>, <<80, 40>>, <<40, 80>>, <<40, 40>>,
     <<20, 20>>, <<19, 20>>, <<200, 200>>, <<201, 200>>, <<20, 50>>, <<21, 50>>,
     <<50, 20>>, <<49, 20>>, <<3, 2>>}

\* pixel counts for a box: full, at and below each default threshold
CountSamples(w, h) ==
    LET atRect == (3 * w * h + 4) \div 5
        atCircle == (3 * PI[1] * (w + h) * (w + h)) \div (5 * PI[2] * 16)
    IN  {n \in {w * h, atRect, atRect - 1, 2000, 1999, atCircle, atCircle + 1} :
            n >= 1 /\ n <= w * h}

TotalSamples == {16000, 15999, 120000}

\* the component as step 3 leaves it
ShapeSamples ==
    UNION {{[comp |-> [pixelCount |-> n, sumX |-> 0, sumY |-> 0,
                       minX |-> 0, maxX |-> b[1] - 1, minY |-> 0, maxY |-> b[2] - 1],
             totalPixels |-> t] : n \in CountSamples(b[1], b[2]), t \in TotalSamples} :
           b \in BoxSamples}

\* what a caller of detectIslands may supply
IslandConfigSamples ==
    {<<>>,
     [aspectTolerance |-> <<1, 2>>],
     [targetAspectRatio |-> <<1, 1>>, minRectangularity |-> <<1, 1>>],
     [minArea |-> 1, maxAreaRatio |-> <<1, 1>>],
     [targetAspectRatio |-> <<2, 1>>, aspectTolerance |-> <<1, 4>>,
      minRectangularity |-> <<1, 2>>, minArea |-> 1000, maxAreaRatio |-> <<1, 10>>]}

\* what a caller of detectPomPoms may supply
PomPomConfigSamples ==
    {<<>>,
     [minRadius |-> <<1, 1>>],
     [maxRadius |-> <<200, 1>>, minCircularity |-> <<19, 20>>],
     [minRadius |-> <<5, 1>>, maxRadius |-> <<30, 1>>, minCircularity |-> <<1, 2>>]}

InitShapes ==
    /\ shapeInput \in ShapeSamples
    /\ islandInfo = <<>>
    /\ pomPomReport = <<>>
    /\ pomPomDetection = <<>>
    /\ IdleClock
    /\ IdlePhotos
    /\ IdleClassifier
    /\ IdleHomography
    /\ IdleClient
    /\ IdleCalibration
    /\ IdleWarp
    /\ IdleGoLive
    /\ IdleProjection
    /\ IdleGenerator
    /\ IdleSam
    /\ IdlePerspective
    /\ IdleGpu
    /\ IdleHappyBirthday
    /\ IdleSpotlight
    /\ IdleControl
    /\ IdleSync
    /\ IdleClear
    /\ IdleServer
    /\ IdleMasks
    /\ IdleLoops

\* step 4 of detectIslands for the component
ClassifyIsland(config) ==
    /\ islandInfo = <<>>
    /\ islandInfo' = <<[config |-> config,
                        info |-> Classify(1, shapeInput.comp,
                                          mergeConfig(DEFAULT_CONFIG, config),
                                          shapeInput.totalPixels)]>>
    /\ UNCHANGED <<shapeInput, pomPomReport, pomPomDetection, outsideShapes>>

\* step 4 of detectPomPoms for the component
ClassifyPomPom(config) ==
    /\ pomPomReport = <<>>
    /\ pomPomReport' = <<[config |-> config,
                          info |-> classifyPomPom(shapeInput.comp,
                                                  mergeConfig(POMPOM_DEFAULT_CONFIG, config))]>>
    /\ UNCHANGED <<shapeInput, islandInfo, pomPomDetection, outsideShapes>>

NextShapes ==
    \/ \E config \in IslandConfigSamples : ClassifyIsland(config)
    \/ \E config \in PomPomConfigSamples : ClassifyPomPom(config)

SpecShapes == InitShapes /\ [][NextShapes]_vars

(***************************************************************************)
(* C15: a component is classified as an island exactly when                *)
(* |max(w,h)/min(w,h) - targetAspect| < aspectTolerance and                *)
(* pixelCount/(w*h) >= minRectangularity and pixelCount >= minArea and     *)
(* pixelCount/totalPixels <= maxAreaRatio, w and h being the width and     *)
(* height of its bounding box, with the defaults 1.5, 0.4, 0.6, 2000 and   *)
(* 0.15 for every threshold the caller does not supply.                    *)
(***************************************************************************)
\* the threshold the caller supplied, or else the default the claim names
Threshold(config, key, default) == IF key \in DOMAIN config THEN config[key] ELSE default

\* a - b, |a| and a < b for fractions with positive denominators
FracSub(a, b) == <<a[1] * b[2] - b[1] * a[2], a[2] * b[2]>>
FracAbs(a) == <<Abs(a[1]), a[2]>>
FracLess(a, b) == a[1] * b[2] < b[1] * a[2]

IslandRule(w, h, pixelCount, totalPixels, config) ==
    LET longer == IF w > h THEN w ELSE h
        shorter == IF w > h THEN h ELSE w
    IN  /\ FracLess(FracAbs(FracSub(<<longer, shorter>>,
                                    Threshold(config, "targetAspectRatio", <<3, 2>>))),
                    Threshold(config, "aspectTolerance", <<2, 5>>))
        /\ FracGeq(<<pixelCount, w * h>>, Threshold(config, "minRectangularity", <<3, 5>>))
        /\ pixelCount >= Threshold(config, "minArea", 2000)
        /\ FracGeq(Threshold(config, "maxAreaRatio", <<3, 20>>), <<pixelCount, totalPixels>>)

PomPomRule(w, h, pixelCount, cfg) ==
    LET r == <<w + h, 4>>
        area == <<PI[1] * (w + h) * (w + h), PI[2] * 16>>
        quotient == <<pixelCount * area[2], area[1]>>
        least == IF FracLess(quotient, <<1, 1>>) THEN quotient ELSE <<1, 1>>
    IN  /\ FracGeq(r, cfg.minRadius) /\ FracGeq(cfg.maxRadius, r)
        /\ FracGeq(least, cfg.minCircularity)
        /\ FracLess(<<2, 5>>, <<w, h>>) /\ FracLess(<<w, h>>, <<5, 2>>)

PomPomExactlyByRule ==
    pomPomReport # <<>> =>
        (pomPomReport[1].info.pushed <=>
            PomPomRule(shapeInput.comp.maxX + 1, shapeInput.comp.maxY + 1,
                       shapeInput.comp.pixelCount,
                       [minRadius |-> Threshold(pomPomReport[1].config, "minRadius",
                                                POMPOM_DEFAULT_CONFIG.minRadius),
                        maxRadius |-> Threshold(pomPomReport[1].config, "maxRadius",
                                                POMPOM_DEFAULT_CONFIG.maxRadius),
                        minCircularity |-> Threshold(pomPomReport[1].config, "minCircularity",
                                                     POMPOM_DEFAULT_CONFIG.minCircularity)]))

\* a 40 x 40 component of 754 pixels, the fewest that reach the default circularity,
\* has been reported as a pom-pom
PomPomExactlyByRuleWitness ==
    /\ pomPomReport # <<>>
    /\ pomPomReport[1].config = <<>>
    /\ pomPomReport[1].info.pushed
    /\ shapeInput.comp.maxX = 39 /\ shapeInput.comp.maxY = 39
    /\ shapeInput.comp.pixelCount = 754

(***************************************************************************)
(* projection-config.ts: detectPomPoms on a mask canvas.  The labelling is *)
(* the one of detectIslands; the components carry the sums of their        *)
(* coordinates.                                                            *)
(***************************************************************************)
\* comp.sumX and comp.sumY over the pixels lo .. hi - 1
RECURSIVE SumCoords(_, _, _, _, _)
SumCoords(labels, width, lo, hi, label) ==
    IF lo >= hi THEN <<0, 0>>
    ELSE IF hi = lo + 1
         THEN IF labels[lo] = label THEN <<lo % width, lo \div width>> ELSE <<0, 0>>
    ELSE LET mid == (lo + hi) \div 2
             left == SumCoords(labels, width, lo, mid, label)
             right == SumCoords(labels, width, mid, hi, label)
         IN  <<left[1] + right[1], left[2] + right[2]>>

\* step 3 of detectPomPoms
pomPomComponentProps(labels, width, total, label) ==
    LET box == ComponentProps(labels, width, total, label)
        sums == SumCoords(labels, width, 0, total, label)
    IN  [pixelCount |-> box.pixelCount, sumX |-> sums[1], sumY |-> sums[2],
         minX |-> box.minX, maxX |-> box.maxX, minY |-> box.minY, maxY |-> box.maxY]

\* a.center.x - b.center.x < 0
CenterLeftOf(a, b) == a.center.x[1] * b.center.x[2] < b.center.x[1] * a.center.x[2]

\* [...pomPoms].sort((a, b) => a.center.x - b.center.x): the positions of pomPoms in
\* sorted order, equal keys in their original order
RECURSIVE sortByX(_, _)
sortByX(pomPoms, n) ==
    IF n = 0 THEN <<>>
    ELSE LET before == sortByX(pomPoms, n - 1)
             keep == {k \in 1 .. Len(before) :
                        ~CenterLeftOf(pomPoms[n], pomPoms[before[k]])}
             at == Cardinality(keep)
         IN  SubSeq(before, 1, at) \o <<n>> \o SubSeq(before, at + 1, Len(before))

\* if (radiusOk && circularityOk && aspectOk)
pushTest(info) == info.pushed

\* detectPomPoms(maskCanvas, config)
detectPomPoms(width, height, alpha, config) ==
    LET cfg == mergeConfig(POMPOM_DEFAULT_CONFIG, config)
        totalPixels == width * height
        binary == [i \in 0 .. totalPixels - 1 |-> IF alpha[i] > AlphaThreshold THEN 1 ELSE 0]
        labels == LabelComponents(binary, width, height)
        order == LabelOrder(labels, 0, totalPixels, <<>>)
        infos == [k \in 1 .. Len(order) |->
                     classifyPomPom(pomPomComponentProps(labels, width, totalPixels, order[k]), cfg)]
        pushed == SelectSeq(infos, pushTest)
        sorted == sortByX(pushed, Len(pushed))
        \* sortedByX.forEach((p, i) => (p.index = i)) writes to the objects of pomPoms
        indexOf(k) == (CHOOSE i \in 1 .. Len(sorted) : sorted[i] = k) - 1
        entry(k) == [index |-> indexOf(k), center |-> pushed[k].center,
                     radius |-> pushed[k].radius, pixelCount |-> pushed[k].pixelCount,
                     boundingBox |-> pushed[k].boundingBox,
                     circularity |-> pushed[k].circularity]
    IN  [pomPoms |-> [k \in 1 .. Len(pushed) |-> entry(k)],
         sortedByX |-> [i \in 1 .. Len(sorted) |-> entry(sorted[i])]]

\* a filled disk of radius 20 on a canvas of 44 x 44: the pixels whose centres are
\* within 20 of the centre (closed) or nearer than 20 (open); the centre is
\* (centre2x/2, centre2y/2) in pixel-centre coordinates
DiskMask(centre2x, centre2y, closed) ==
    [width |-> 44, height |-> 44,
     alpha |-> [i \in 0 .. 44 * 44 - 1 |->
                  LET dx == 2 * (i % 44) - centre2x
                      dy == 2 * (i \div 44) - centre2y
                      d == dx * dx + dy * dy
                  IN  IF d < 40 * 40 \/ (closed /\ d = 40 * 40) THEN Opaque ELSE 0]]

\* the disk centred on a pixel centre, on a pixel corner and on a pixel edge
DiskSamples ==
    {DiskMask(44, 44, TRUE), DiskMask(44, 44, FALSE), DiskMask(45, 45, TRUE),
     DiskMask(45, 44, TRUE), DiskMask(44, 45, TRUE)}

\* the thresholds a caller supplies: none, or ones that small blobs meet
DetectConfigSamples == {<<>>, [minRadius |-> <<1, 2>>, minCircularity |-> <<1, 2>>]}

\* a mask canvas of at most MaxPixels pixels, or one of the disks
InitPomPoms ==
    /\ \/ /\ maskWidth \in 1 .. MaxPixels
          /\ maskHeight \in 1 .. MaxPixels
          /\ maskWidth * maskHeight <= MaxPixels
          /\ maskAlpha \in [0 .. maskWidth * maskHeight - 1 -> AlphaSamples]
       \/ \E disk \in DiskSamples :
             /\ maskWidth = disk.width
             /\ maskHeight = disk.height
             /\ maskAlpha = disk.alpha
    /\ detection = <<>>
    /\ IdleClock
    /\ IdlePhotos
    /\ IdleHomography
    /\ IdleClient
    /\ IdleCalibration
    /\ IdleWarp
    /\ IdleShapes
    /\ IdleGoLive
    /\ IdleProjection
    /\ IdleGenerator
    /\ IdleSam
    /\ IdlePerspective
    /\ IdleGpu
    /\ IdleHappyBirthday
    /\ IdleSpotlight
    /\ IdleControl
    /\ IdleSync
    /\ IdleClear
    /\ IdleServer
    /\ IdleMasks
    /\ IdleLoops

DetectPomPoms(config) ==
    /\ pomPomDetection = <<>>
    /\ pomPomDetection' = <<[config |-> config,
                             result |-> detectPomPoms(maskWidth, maskHeight, maskAlpha, config)]>>
    /\ UNCHANGED <<shapeInput, islandInfo, pomPomReport, classifierVars, clockVars, photoVars,
                   homographyVars, clientVars, calibrationVars, warpVars, goLiveVars,
                   projectionVars, generatorVars, samVars, perspectiveVars,
                   gpuVars, hbVars, spotVars, controlVars, syncVars, clearVars,
                   serverVars, maskVars, loopVars>>

NextPomPoms == \E config \in DetectConfigSamples : DetectPomPoms(config)

SpecPomPoms == InitPomPoms /\ [][NextPomPoms]_vars

(***************************************************************************)
(* C17: a filled disk of radius 20 pixels alone on an otherwise empty      *)
(* raster is reported by detectPomPoms with the default thresholds as      *)
(* exactly one pom-pom, and its circularity is at least 0.95.              *)
(***************************************************************************)
IsDiskMask ==
    \E disk \in DiskSamples :
        maskWidth = disk.width /\ maskHeight = disk.height /\ maskAlpha = disk.alpha

DiskIsOnePomPom ==
    (pomPomDetection # <<>> /\ pomPomDetection[1].config = <<>> /\ IsDiskMask) =>
        /\ Len(pomPomDetection[1].result.pomPoms) = 1
        /\ Len(pomPomDetection[1].result.sortedByX) = 1
        /\ FracGeq(pomPomDetection[1].result.pomPoms[1].circularity, <<95, 100>>)

\* the disk centred on a pixel centre has been detected: 1257 pixels in a box of
\* 41 x 41, the least circular of the disks
DiskIsOnePomPomWitness ==
    /\ pomPomDetection # <<>>
    /\ pomPomDetection[1].config = <<>>
    /\ maskWidth = 44
    /\ maskAlpha = DiskMask(44, 44, TRUE).alpha
    /\ Len(pomPomDetection[1].result.pomPoms) = 1
    /\ pomPomDetection[1].result.pomPoms[1].pixelCount = 1257
    /\ pomPomDetection[1].result.pomPoms[1].radius = <<82, 4>>
    /\ pomPomDetection[1].result.pomPoms[1].circularity # <<1, 1>>

(***************************************************************************)
(* C18: the homography solved from the correspondences (100,80) -> (0,0),  *)
(* (500,80) -> (1920,0), (500,400) -> (1920,1080), (100,400) -> (0,1080)   *)
(* maps the point (300,240) to within one pixel of (960,540).              *)
(***************************************************************************)
\* |a - b| < 1
WithinOne(a, b) ==
    /\ IsFinite(a)
    /\ FGt(Num(1), FAbs(FSub(a, b)))

CentreMapsToCentre ==
    (quadHomography # <<>> /\ srcQuad = MarkerQuad /\ dstQuad = ProjectorQuad) =>
        LET image == transformPoint(Point(300, 240), Rows(quadHomography[1]))
        IN  WithinOne(image.x, Num(960)) /\ WithinOne(image.y, Num(540))

\* the homography of the four correspondences has been solved: its first row scales
\* x by 1920/400
CentreMapsToCentreWitness ==
    /\ quadHomography # <<>>
    /\ srcQuad = MarkerQuad
    /\ dstQuad = ProjectorQuad
    /\ FEq(quadHomography[1][1], <<24, 5>>)
    /\ FEq(quadHomography[1][9], Num(1))

(***************************************************************************)
(* animations/clock.ts: createAnimationClock.  Date.now() and              *)
(* Math.random() are inputs; Math.random() is a fraction <<k, n>> with     *)
(* 0 <= k < n.                                                             *)
(***************************************************************************)
\* Math.floor(random * scale), computed without leaving 32 bits
FloorOfProduct(random, scale) ==
    random[1] * (scale \div random[2]) + (random[1] * (scale % random[2])) \div random[2]

\* previousSequence: number = 0: the argument <<p>>, or <<>> when it is omitted
DefaultZero(previousSequence) == IF previousSequence = <<>> THEN 0 ELSE previousSequence[1]

\* a mutation of createAnimationClock: the sequence number is not incremented
createAnimationClockSameSequence(previousSequence, now, random) ==
    [startedAt |-> now,
     seed |-> FloorOfProduct(random, 2147483647),
     sequenceNumber |-> DefaultZero(previousSequence)]

createAnimationClock(previousSequence, now, random) ==
    [startedAt |-> now,
     seed |-> FloorOfProduct(random, 2147483647),
     sequenceNumber |-> DefaultZero(previousSequence) + 1]

\* values of Math.random(): the least, the greatest of the grid and some between
RandomSamples == {<<0, 1024>>, <<1, 1024>>, <<341, 1024>>, <<512, 1024>>, <<1023, 1024>>}

\* arguments of createAnimationClock: omitted, or a sequence number
PreviousSamples == {<<>>, <<0>>, <<1>>, <<2>>, <<41>>, <<1000>>, <<65535>>, <<2147483646>>}

InitCreateClock ==
    /\ clockCall \in [previous : PreviousSamples, now : StartSamples, random : RandomSamples,
                      result : {<<>>}]
    /\ serverState = <<>>
    /\ pageState = <<>>
    /\ requests = <<>>
    /\ responses = <<>>
    /\ published = <<>>
    /\ goLives = <<>>
    /\ polls = <<>>
    /\ IdleClock
    /\ IdlePhotos
    /\ IdleClassifier
    /\ IdleHomography
    /\ IdleClient
    /\ IdleCalibration
    /\ IdleWarp
    /\ IdleShapes
    /\ IdleProjection
    /\ IdleGenerator
    /\ IdleSam
    /\ IdlePerspective
    /\ IdleGpu
    /\ IdleHappyBirthday
    /\ IdleSpotlight
    /\ IdleControl
    /\ IdleSync
    /\ IdleClear
    /\ IdleServer
    /\ IdleMasks
    /\ IdleLoops

CreateAnimationClock ==
    /\ clockCall.result = <<>>
    /\ clockCall' = [clockCall EXCEPT
                        !.result = <<createAnimationClock(clockCall.previous, clockCall.now,
                                                          clockCall.random)>>]
    /\ UNCHANGED <<serverState, pageState, requests, responses, published, goLives, polls,
                   outsideGoLive>>

NextCreateClock == CreateAnimationClock

SpecCreateClock == InitCreateClock /\ [][NextCreateClock]_vars

(***************************************************************************)
(* C19: createAnimationClock(p) returns a clock whose sequenceNumber is    *)
(* p + 1 and whose seed is an integer with 0 <= seed < 2^31, for every     *)
(* previous sequence number p; p is 0 when no argument is given.           *)
(***************************************************************************)
ClockFollowsPrevious ==
    clockCall.result # <<>> =>
        LET p == IF clockCall.previous = <<>> THEN 0 ELSE clockCall.previous[1]
        IN  /\ clockCall.result[1].sequenceNumber = p + 1
            /\ clockCall.result[1].seed \in Nat
            \* 2^31 - 1, the greatest integer below 2^31
            /\ clockCall.result[1].seed <= 2147483647

\* the call createAnimationClock(41) has returned the sequence number 42 and, for the
\* greatest random number of the grid, the seed 2145386495
ClockFollowsPreviousWitness ==
    /\ clockCall.result # <<>>
    /\ clockCall.previous = <<41>>
    /\ clockCall.random = <<1023, 1024>>
    /\ clockCall.result[1].sequenceNumber = 42
    /\ clockCall.result[1].seed = 2145386495

(***************************************************************************)
(* Going live: the control pages (routes/control/+page.svelte with         *)
(* state.svelte.ts) and the state of the server (server/state.ts behind    *)
(* /api/state).  A handler runs up to its first await as one step; the     *)
(* server handles one request as one step; a response is applied to the    *)
(* page's _state as one step.  Requests are handled and responses arrive   *)
(* in any order.                                                           *)
(***************************************************************************)
MaxGoLives == 2
MaxPolls == 1
ControlPages == {"control-1", "control-2"}

\* types.ts DEFAULT_STATE, as far as going live reads and writes it
DEFAULT_STATE == [mode |-> "idle", animationClock |-> <<>>]

\* { ...a, ...b }
spread(a, b) ==
    [k \in DOMAIN a \cup DOMAIN b |-> IF k \in DOMAIN b THEN b[k] ELSE a[k]]

\* setState without the merge of the nested objects
setStateShallow(state, partial) == spread(state, partial)

\* server/state.ts setState(partial): { ...state, ...partial, calibration: {...},
\* projection: {...} }; a nested object that is missing or null in the partial counts
\* as {}, written <<>>.  States that leave calibration and projection out of the
\* picture stay without them.
setState(state, partial) ==
    LET top == spread(state, partial)
        given(k) == IF k \in DOMAIN partial THEN partial[k] ELSE <<>>
    IN  [k \in DOMAIN top |->
            IF k \in {"calibration", "projection"} /\ k \in DOMAIN state
            THEN spread(state[k], given(k))
            ELSE top[k]]

GoLiveRandomSamples == {<<0, 1024>>, <<1023, 1024>>}

\* the instant of a go-live
GoLiveInstants == {7}

InitGoLive ==
    /\ clockCall = <<>>
    /\ serverState = DEFAULT_STATE
    /\ pageState = [page \in ControlPages |-> DEFAULT_STATE]
    /\ requests = {}
    /\ responses = {}
    /\ published = <<>>
    /\ goLives = 0
    /\ polls = 0
    /\ IdleClock
    /\ IdlePhotos
    /\ IdleClassifier
    /\ IdleHomography
    /\ IdleClient
    /\ IdleCalibration
    /\ IdleWarp
    /\ IdleShapes
    /\ IdleProjection
    /\ IdleGenerator
    /\ IdleSam
    /\ IdlePerspective
    /\ IdleGpu
    /\ IdleHappyBirthday
    /\ IdleSpotlight
    /\ IdleControl
    /\ IdleSync
    /\ IdleClear
    /\ IdleServer
    /\ IdleMasks
    /\ IdleLoops

\* startProjecting() up to the fetch of updateState; viaButton tells whether it is
\* called by the button "Project Masks", which is disabled while the page's mode is
\* projecting, or at the end of the mask generation
StartProjecting(page, viaButton, now, random) ==
    /\ goLives < MaxGoLives
    /\ viaButton => pageState[page].mode # "projecting"
    /\ LET previousSequence == IF pageState[page].animationClock = <<>> THEN 0
                               ELSE pageState[page].animationClock[1].sequenceNumber
           animationClock == createAnimationClock(<<previousSequence>>, now, random)
       IN  requests' = requests \cup
                {[page |-> page, n |-> goLives + 1,
                  partial |-> [mode |-> "projecting", animationClock |-> <<animationClock>>]]}
    /\ goLives' = goLives + 1
    /\ UNCHANGED <<clockCall, serverState, pageState, responses, published, polls,
                   outsideGoLive>>

\* stopProjecting() up to the fetch of updateState; its button is disabled unless the
\* page's mode is projecting
StopProjecting(page) ==
    /\ pageState[page].mode = "projecting"
    /\ ~\E r \in requests \cup responses : r.page = page /\ r.n = 0
    /\ requests' = requests \cup {[page |-> page, n |-> 0, partial |-> [mode |-> "idle"]]}
    /\ UNCHANGED <<clockCall, serverState, pageState, responses, published, goLives, polls,
                   outsideGoLive>>

\* POST /api/state: setState(partial) and the response with the updated state
HandlePost(request) ==
    /\ serverState' = setState(serverState, request.partial)
    /\ published' = IF "animationClock" \in DOMAIN request.partial
                    THEN Append(published, request.partial.animationClock[1])
                    ELSE published
    /\ requests' = requests \ {request}
    /\ responses' = responses \cup {[page |-> request.page, n |-> request.n,
                                      state |-> serverState']}
    /\ UNCHANGED <<clockCall, pageState, goLives, polls, outsideGoLive>>

\* fetchState() of the polling interval, and GET /api/state answering it
FetchState(page) ==
    /\ polls < MaxPolls
    /\ polls' = polls + 1
    /\ responses' = responses \cup {[page |-> page, n |-> -polls', state |-> serverState]}
    /\ UNCHANGED <<clockCall, serverState, pageState, requests, published, goLives,
                   outsideGoLive>>

\* the continuation of fetchState and of updateState after res.json(): the fields of
\* the response are copied into _state
ReceiveState(response) ==
    /\ pageState' = [pageState EXCEPT ![response.page] = response.state]
    /\ responses' = responses \ {response}
    /\ UNCHANGED <<clockCall, serverState, requests, published, goLives, polls,
                   outsideGoLive>>

NextGoLive ==
    \/ \E page \in ControlPages, viaButton \in BOOLEAN, now \in GoLiveInstants,
          random \in GoLiveRandomSamples : StartProjecting(page, viaButton, now, random)
    \/ \E page \in ControlPages : StopProjecting(page)
    \/ \E request \in requests : HandlePost(request)
    \/ \E page \in ControlPages : FetchState(page)
    \/ \E response \in responses : ReceiveState(response)

SpecGoLive == InitGoLive /\ [][NextGoLive]_vars

(***************************************************************************)
(* C20: over any sequence of go-live events, from any control page and     *)
(* interleaved with state polls and state updates, each published clock    *)
(* has a sequenceNumber strictly greater than that of every clock          *)
(* published before it.                                                    *)
(***************************************************************************)
PublishedStrictlyIncreasing ==
    \A i \in 1 .. Len(published) : \A j \in 1 .. Len(published) :
        i < j => published[i].sequenceNumber < published[j].sequenceNumber

(***************************************************************************)
(* routes/projection/+page.svelte: the projection page.  onMount runs up   *)
(* to its await of loadMarkerImages as one step and from there to its end  *)
(* as a second; the clock effect runs when it is first scheduled and after *)
(* every assignment to _state.animationClock.  The control side is one     *)
(* page whose view of the state is current: a go-live stores a clock with  *)
(* the next sequence number at the server.                                 *)
(***************************************************************************)
ClockedAnimations == {"spotlight", "islandPhotos", "happyBirthday"}

InitProjection ==
    /\ mountPhase = "init"
    /\ projectionState = [animationClock |-> <<>>]
    /\ pollResponse = <<>>
    /\ lastClockSequence = 0
    /\ clockProvider = <<>>
    /\ animationProvider = [a \in ClockedAnimations |-> [created |-> FALSE, clock |-> <<>>]]
    /\ effectPending = TRUE
    /\ clockCall = <<>>
    /\ serverState = DEFAULT_STATE
    /\ pageState = <<>>
    /\ requests = <<>>
    /\ responses = <<>>
    /\ published = <<>>
    /\ goLives = 0
    /\ polls = <<>>
    /\ IdleClock
    /\ IdlePhotos
    /\ IdleClassifier
    /\ IdleHomography
    /\ IdleClient
    /\ IdleCalibration
    /\ IdleWarp
    /\ IdleShapes
    /\ IdleGenerator
    /\ IdleSam
    /\ IdlePerspective
    /\ IdleGpu
    /\ IdleHappyBirthday
    /\ IdleSpotlight
    /\ IdleControl
    /\ IdleSync
    /\ IdleClear
    /\ IdleServer
    /\ IdleMasks
    /\ IdleLoops

\* startProjecting() on a control page whose _state is current, and the POST it sends
GoLive(now, random) ==
    /\ goLives < MaxGoLives
    /\ goLives' = goLives + 1
    /\ LET previousSequence == IF serverState.animationClock = <<>> THEN 0
                               ELSE serverState.animationClock[1].sequenceNumber
           animationClock == createAnimationClock(<<previousSequence>>, now, random)
       IN  /\ serverState' = setState(serverState, [mode |-> "projecting",
                                                    animationClock |-> <<animationClock>>])
           /\ published' = Append(published, animationClock)
    /\ UNCHANGED <<clockCall, pageState, requests, responses, polls, projectionVars,
                   clockVars, photoVars, classifierVars, homographyVars, clientVars,
                   calibrationVars, warpVars, shapeVars, generatorVars, samVars,
                   perspectiveVars, gpuVars, hbVars, spotVars,
                   controlVars, syncVars, clearVars, serverVars, maskVars,
                   loopVars>>

\* onMount up to "await loadMarkerImages()": startPolling(500) sends the first
\* fetchState and starts the interval
MountBegins ==
    /\ mountPhase = "init"
    /\ mountPhase' = "loading"
    /\ pollResponse' = <<[animationClock |-> serverState.animationClock]>>
    /\ UNCHANGED <<projectionState, lastClockSequence, clockProvider, animationProvider,
                   effectPending, outsideProjection>>

\* onMount after the await: the animations are created
MountCompletes ==
    /\ mountPhase = "loading"
    /\ mountPhase' = "mounted"
    /\ animationProvider' = [a \in ClockedAnimations |-> [created |-> TRUE, clock |-> <<>>]]
    /\ UNCHANGED <<projectionState, pollResponse, lastClockSequence, clockProvider,
                   effectPending, outsideProjection>>

\* the interval of startPolling: fetchState and the GET that answers it
PollState ==
    /\ mountPhase # "init"
    /\ pollResponse = <<>>
    /\ pollResponse' = <<[animationClock |-> serverState.animationClock]>>
    /\ UNCHANGED <<mountPhase, projectionState, lastClockSequence, clockProvider,
                   animationProvider, effectPending, outsideProjection>>

\* fetchState after res.json(): _state.animationClock = newState.animationClock
ApplyPoll ==
    /\ pollResponse # <<>>
    /\ projectionState' = [animationClock |-> pollResponse[1].animationClock]
    /\ pollResponse' = <<>>
    /\ effectPending' = TRUE
    /\ UNCHANGED <<mountPhase, lastClockSequence, clockProvider, animationProvider,
                   outsideProjection>>

\* animationClock.sequenceNumber !== lastClockSequence
ClockIsNew(animationClock) == animationClock.sequenceNumber # lastClockSequence

\* $effect: watch for animation clock changes in shared state
ClockEffect ==
    /\ effectPending
    /\ effectPending' = FALSE
    /\ IF projectionState.animationClock # <<>>
          /\ ClockIsNew(projectionState.animationClock[1])
       THEN /\ lastClockSequence' = projectionState.animationClock[1].sequenceNumber
            /\ clockProvider' = projectionState.animationClock
            \* if (anim) anim.setClockProvider(clockProvider)
            /\ animationProvider' =
                   [a \in ClockedAnimations |->
                       IF animationProvider[a].created
                       THEN [created |-> TRUE, clock |-> projectionState.animationClock]
                       ELSE animationProvider[a]]
       ELSE UNCHANGED <<lastClockSequence, clockProvider, animationProvider>>
    /\ UNCHANGED <<mountPhase, projectionState, pollResponse, outsideProjection>>

NextProjection ==
    \/ \E now \in GoLiveInstants, random \in GoLiveRandomSamples : GoLive(now, random)
    \/ MountBegins
    \/ MountCompletes
    \/ PollState
    \/ ApplyPoll
    \/ ClockEffect

SpecProjection == InitProjection /\ [][NextProjection]_vars

\* the image load resolves, the interval fires, responses arrive and effects are flushed
SpecProjectionFair ==
    /\ SpecProjection
    /\ WF_vars(MountBegins)
    /\ WF_vars(MountCompletes)
    /\ WF_vars(PollState)
    /\ WF_vars(ApplyPoll)
    /\ WF_vars(ClockEffect)

(***************************************************************************)
(* C21: whenever a go-live publishes a new clock while the projection page *)
(* is polling, the spotlight, island-photos and happy-birthday animations  *)
(* of the page eventually all use a provider built from that clock (same   *)
(* seed and start instant), whatever the order of mount, polls and         *)
(* effects.  A clock that a later go-live replaces need not be adopted, so *)
(* the property is stated for the clock the server holds in the end.       *)
(***************************************************************************)
AllUse(clock) ==
    \A a \in ClockedAnimations :
        /\ animationProvider[a].created
        /\ animationProvider[a].clock # <<>>
        /\ animationProvider[a].clock[1].seed = clock.seed
        /\ animationProvider[a].clock[1].startedAt = clock.startedAt

PublishedClockAdopted ==
    <>[](published # <<>> => AllUse(published[Len(published)]))

(***************************************************************************)
(* C22: within one clock provider every getPRNG call with the same         *)
(* namespace returns the same generator: the n-th number drawn under a     *)
(* namespace is the n-th number of that namespace's sequence, however many *)
(* getPRNG calls for this or other namespaces happen in between, and the   *)
(* sequence never restarts.                                                *)
(***************************************************************************)
\* the state of a generator made from seed after n calls
RECURSIVE StateAfter(_, _)
StateAfter(seed, n) == IF n = 0 THEN seed ELSE Add32(StateAfter(seed, n - 1), MulberryIncrement)

SequenceContinues ==
    \A p \in Providers, ns \in ClockNamespaces :
        LET seed == combineSeeds(<<providerClock[p].seed, hashString(ns)>>)
        IN  /\ \A n \in 1 .. Len(drawn[p][ns]) :
                  drawn[p][ns][n] = PRNGOutput(StateAfter(seed, n))
            /\ prngCache[p][ns] # NoPRNG =>
                  prngCache[p][ns][1] = StateAfter(seed, Len(drawn[p][ns]))

\* the control provider has drawn two numbers under one namespace and one under the
\* other, and the two numbers differ
SequenceContinuesWitness ==
    /\ Len(drawn["control"]["x"]) = 2
    /\ Len(drawn["control"]["island-photos-spawn"]) = 1
    /\ drawn["control"]["x"][1] # drawn["control"]["x"][2]

(***************************************************************************)
(* prng.ts: one generator made by createPRNG and called repeatedly.  A     *)
(* 32-bit word is held as the signed integer with the same bits, so        *)
(* seed >>> 0 and | 0 keep the word they are given.                        *)
(***************************************************************************)
\* seeds: the ends of the range, words whose sum with the increment wraps, words that
\* reach 0 and the ends after one call, and small ones
GeneratorSeeds ==
    {0, 1, -1, 2147483647, -2147483647 - 1, 12345, 315917834, 315917835,
     -1831565813, -1831565814, 315917836, 1000000007, -1000000007}
    \cup (2 .. 40)

InitGenerator ==
    /\ generatorSeed \in GeneratorSeeds
    /\ generatorState = createPRNG(generatorSeed)
    /\ generatorDrawn = <<>>
    /\ IdleClock
    /\ IdlePhotos
    /\ IdleClassifier
    /\ IdleHomography
    /\ IdleClient
    /\ IdleCalibration
    /\ IdleWarp
    /\ IdleShapes
    /\ IdleGoLive
    /\ IdleProjection
    /\ IdleSam
    /\ IdlePerspective
    /\ IdleGpu
    /\ IdleHappyBirthday
    /\ IdleSpotlight
    /\ IdleControl
    /\ IdleSync
    /\ IdleClear
    /\ IdleServer
    /\ IdleMasks
    /\ IdleLoops

\* random(): one call of the generator
Random ==
    /\ Len(generatorDrawn) < MaxDraws
    /\ generatorState' = PRNGAdvance(generatorState)
    /\ generatorDrawn' = Append(generatorDrawn, PRNGOutput(generatorState'))
    /\ UNCHANGED <<generatorSeed, outsideGenerator>>

NextGenerator == Random

SpecGenerator == InitGenerator /\ [][NextGenerator]_vars

(***************************************************************************)
(* C23: for every 32-bit seed and every call, the generator made by        *)
(* createPRNG returns an unsigned 32-bit integer divided by 2^32, hence a  *)
(* value in [0,1) and never 1, and its state advances by the constant      *)
(* 0x6D2B79F5 modulo 2^32 on each call.                                    *)
(***************************************************************************)
\* word + 1831565813 modulo 2^32 on signed words, by cases on the wrap
WrapAdvance(word) ==
    IF word <= 2147483647 - 1831565813
    THEN word + 1831565813
    ELSE (word - 2147483647) + (1831565813 - 2147483647) - 2

RECURSIVE AdvancedBy(_, _)
AdvancedBy(word, n) == IF n = 0 THEN word ELSE WrapAdvance(AdvancedBy(word, n - 1))

UnitIntervalAndStride ==
    /\ \A n \in 1 .. Len(generatorDrawn) :
          \* the numerator hi * 2^16 + lo is an integer from 0 to 2^32 - 1
          /\ generatorDrawn[n][1] \in 0 .. 65535
          /\ generatorDrawn[n][2] \in 0 .. 65535
    /\ generatorState = AdvancedBy(generatorSeed, Len(generatorDrawn))

\* the seed 2^31 - 1 has been advanced twice; the first step wraps to -315917836
UnitIntervalAndStrideWitness ==
    /\ generatorSeed = 2147483647
    /\ Len(generatorDrawn) = 2
    /\ generatorState = 1515647977

(***************************************************************************)
(* sam.ts: generateMasks.  One iteration of the loop over the prompts is   *)
(* one step, with the outcome of segmentImage as its input: a thrown       *)
(* error, or a result with masks and, when the service sends them, scores. *)
(* Scores are compared only, and are integers here.                        *)
(***************************************************************************)
MaxPrompts == 2
ScoreSamples == {10, 90}
MaskUrls == <<"a", "b">>

\* the sequences over S of length at most n
RECURSIVE SeqsUpTo(_, _)
SeqsUpTo(S, n) ==
    IF n = 0 THEN {<<>>}
    ELSE LET shorter == SeqsUpTo(S, n - 1)
         IN  shorter \cup {Append(q, x) : q \in {r \in shorter : Len(r) = n - 1}, x \in S}

\* what segmentImage gives: scores is <<>> when the field is absent, else <<array>>
SegmentationSamples ==
    {[threw |-> TRUE, masks |-> <<>>, scores |-> <<>>]}
    \cup {[threw |-> FALSE, masks |-> SubSeq(MaskUrls, 1, n), scores |-> sc] :
             n \in 0 .. Len(MaskUrls),
             sc \in {<<>>} \cup {<<q>> : q \in SeqsUpTo(ScoreSamples, Len(MaskUrls))}}

\* Math.max(...scores): <<>> stands for -Infinity, the value for no arguments
MathMax(scores) ==
    IF scores = <<>> THEN <<>>
    ELSE <<CHOOSE m \in {scores[i] : i \in 1 .. Len(scores)} :
               \A i \in 1 .. Len(scores) : scores[i] <= m>>

\* scores.indexOf(value), counted from 0; -1 when value is not an element
indexOf(scores, value) ==
    IF value = <<>> \/ ~\E i \in 1 .. Len(scores) : scores[i] = value[1] THEN -1
    ELSE (CHOOSE i \in 1 .. Len(scores) :
              scores[i] = value[1] /\ \A j \in 1 .. i - 1 : scores[j] # value[1]) - 1

\* the body of the loop for one prompt: <<>> when nothing is pushed, else the one
\* GeneratedMask pushed
pushMask(result) ==
    IF result.threw THEN <<>>
    ELSE IF Len(result.masks) > 0
         THEN LET bestIndex == IF result.scores # <<>>
                               THEN indexOf(result.scores[1], MathMax(result.scores[1]))
                               ELSE 0
              IN  \* result.masks[bestIndex].url throws when there is no such mask,
                  \* and the catch of the loop logs it
                  IF bestIndex < 0 \/ bestIndex >= Len(result.masks) THEN <<>>
                  ELSE <<[maskUrl |-> result.masks[bestIndex + 1],
                          score |-> IF result.scores # <<>>
                                    THEN result.scores[1][bestIndex + 1] ELSE 1]>>
         ELSE <<>>

InitSam ==
    /\ segmentations = <<>>
    /\ generatedMasks = <<>>
    /\ IdleClock
    /\ IdlePhotos
    /\ IdleClassifier
    /\ IdleHomography
    /\ IdleClient
    /\ IdleCalibration
    /\ IdleWarp
    /\ IdleShapes
    /\ IdleGoLive
    /\ IdleProjection
    /\ IdleGenerator
    /\ IdlePerspective
    /\ IdleGpu
    /\ IdleHappyBirthday
    /\ IdleSpotlight
    /\ IdleControl
    /\ IdleSync
    /\ IdleClear
    /\ IdleServer
    /\ IdleMasks
    /\ IdleLoops

\* one iteration of "for (const { id, prompt } of prompts)"
SegmentPrompt(result) ==
    /\ Len(segmentations) < MaxPrompts
    /\ segmentations' = Append(segmentations, result)
    /\ generatedMasks' = generatedMasks \o
            [k \in 1 .. Len(pushMask(result)) |->
                [prompt |-> Len(segmentations) + 1,
                 maskUrl |-> pushMask(result)[k].maskUrl,
                 score |-> pushMask(result)[k].score]]
    /\ UNCHANGED outsideSam

NextSam == \E result \in SegmentationSamples : SegmentPrompt(result)

SpecSam == InitSam /\ [][NextSam]_vars

(***************************************************************************)
(* C24: for every segmentation response that contains at least one mask,   *)
(* generateMasks emits for that prompt the mask whose score is the highest *)
(* of the returned scores, and the first mask when no scores are returned. *)
(* Stated for responses that return no more scores than masks.             *)
(***************************************************************************)
\* no scores are returned: the field is absent or the array is empty
NoScores(result) == result.scores = <<>> \/ result.scores[1] = <<>>

\* a position of the highest of the returned scores
IsHighest(scores, k) == k \in 1 .. Len(scores) /\ \A i \in 1 .. Len(scores) : scores[i] <= scores[k]

BestMaskEmitted ==
    \A p \in 1 .. Len(segmentations) :
        LET result == segmentations[p]
            emitted == {k \in 1 .. Len(generatedMasks) : generatedMasks[k].prompt = p}
        IN  (/\ ~result.threw
             /\ Len(result.masks) >= 1
             /\ result.scores # <<>> => Len(result.scores[1]) <= Len(result.masks)) =>
                /\ Cardinality(emitted) = 1
                /\ \A k \in emitted :
                      IF NoScores(result) THEN generatedMasks[k].maskUrl = result.masks[1]
                      ELSE \E b \in 1 .. Len(result.scores[1]) :
                              /\ IsHighest(result.scores[1], b)
                              /\ generatedMasks[k].maskUrl = result.masks[b]

(***************************************************************************)
(* projection-renderer.ts: where renderProjection draws the calibration    *)
(* markers.                                                                *)
(***************************************************************************)
MARKER_SIZE == 200
MARKER_MARGIN == 40
MARKER_IDS == <<0, 1, 2, 3>>

\* getMarkerPositions(ids): top-left, top-right, bottom-left, bottom-right
getMarkerPositions(ids) ==
    <<[id |-> ids[1], x |-> MARKER_MARGIN, y |-> MARKER_MARGIN],
      [id |-> ids[2], x |-> PROJECTOR_WIDTH - MARKER_MARGIN - MARKER_SIZE, y |-> MARKER_MARGIN],
      [id |-> ids[3], x |-> MARKER_MARGIN, y |-> PROJECTOR_HEIGHT - MARKER_MARGIN - MARKER_SIZE],
      [id |-> ids[4], x |-> PROJECTOR_WIDTH - MARKER_MARGIN - MARKER_SIZE,
       y |-> PROJECTOR_HEIGHT - MARKER_MARGIN - MARKER_SIZE]>>

MARKER_POSITIONS == getMarkerPositions(MARKER_IDS)

\* the calibration branch of renderProjection: for each marker image drawn, the
\* corners TL, TR, BR, BL of the square drawImage(image, x, y, MARKER_SIZE,
\* MARKER_SIZE) covers
drawnMarkerSquares ==
    [id \in {MARKER_POSITIONS[i].id : i \in 1 .. 4} |->
        LET pos == CHOOSE p \in {MARKER_POSITIONS[i] : i \in 1 .. 4} : p.id = id
        IN  MarkerCorners(pos.x, pos.y, MARKER_SIZE)]

(***************************************************************************)
(* C25: the projector-space corners that the control page takes from       *)
(* getProjectorMarkerPositions(PROJECTOR_WIDTH, PROJECTOR_HEIGHT) for the  *)
(* markers 0 to 3 are the corners of the squares in which the renderer     *)
(* draws those markers.  Stated on the request the page has sent to the    *)
(* homography server: the projector points paired with each detected       *)
(* marker are the corners of the square drawn for that marker.             *)
(***************************************************************************)
SentCornersAreDrawnCorners ==
    capturePhase = "solving" =>
        LET sent == buildPointCorrespondences(
                        detectedMarkers,
                        getProjectorMarkerPositions(PROJECTOR_WIDTH, PROJECTOR_HEIGHT,
                                                    DefaultMarkerSize, DefaultMargin))
        IN  \A k \in 1 .. Len(detectedMarkers) :
                detectedMarkers[k].id \in DOMAIN drawnMarkerSquares =>
                    SubSeq(sent.projectorPoints, 4 * k - 3, 4 * k)
                        = drawnMarkerSquares[detectedMarkers[k].id]

(***************************************************************************)
(* animations/island-photos.ts: one render loop over four islands, with    *)
(* frames up to a whole spawn interval apart (a page in the background     *)
(* gets no frame callbacks) and image loads that resolve at any time.      *)
(***************************************************************************)
MaxPhotoFrames == 4
MaxPhotoAdvances == 4
PhotoTimeSteps == {16, AVG_SPAWN_INTERVAL_MS}
PhotoLoop == "projection"

InitIslandPhotos ==
    /\ wallClock = 0
    /\ sharedClock \in [startedAt : {0}, seed : SeedSamples, sequenceNumber : {1}]
    /\ islands = <<[isIsland |-> TRUE], [isIsland |-> TRUE], [isIsland |-> TRUE],
                   [isIsland |-> TRUE]>>
    /\ running = [l \in Loops |-> l = PhotoLoop]
    /\ animationFrameId = [l \in Loops |-> IF l = PhotoLoop THEN "scheduled" ELSE "null"]
    /\ lastElapsedTime = [l \in Loops |-> 0]
    /\ photos = [l \in Loops |-> <<>>]
    /\ imagesLoaded = [l \in Loops |-> {}]
    /\ pendingLoads = [l \in Loops |-> <<>>]
    /\ loopPrng = [l \in Loops |-> [ns \in PhotoNamespaces |-> NoPRNG]]
    /\ decisions = [l \in Loops |-> <<>>]
    /\ frames = [l \in Loops |-> 0]
    /\ advances = 0
    /\ IdleClock
    /\ IdleClassifier
    /\ IdleHomography
    /\ IdleClient
    /\ IdleCalibration
    /\ IdleWarp
    /\ IdleShapes
    /\ IdleGoLive
    /\ IdleProjection
    /\ IdleGenerator
    /\ IdleSam
    /\ IdlePerspective
    /\ IdleGpu
    /\ IdleHappyBirthday
    /\ IdleSpotlight
    /\ IdleControl
    /\ IdleSync
    /\ IdleClear
    /\ IdleServer
    /\ IdleMasks
    /\ IdleLoops

PhotoTimePasses(dt) == advances < MaxPhotoAdvances /\ elapse(dt)

PhotoFrame == frames[PhotoLoop] < MaxPhotoFrames /\ tick(PhotoLoop)

PhotoImageLoaded == ImageLoaded(PhotoLoop)

NextIslandPhotos ==
    \/ \E dt \in PhotoTimeSteps : PhotoTimePasses(dt)
    \/ PhotoFrame
    \/ PhotoImageLoaded

SpecIslandPhotos == InitIslandPhotos /\ [][NextIslandPhotos]_vars

(***************************************************************************)
(* C26: the island-photos animation holds at most MAX_ACTIVE_ISLANDS (2)   *)
(* photos, across any interleaving of frames with pending image loads.     *)
(***************************************************************************)
AtMostMaxActivePhotos ==
    \A l \in Loops : Cardinality(DOMAIN photos[l]) <= MAX_ACTIVE_ISLANDS

(***************************************************************************)
(* perspective-canvas.ts: getOrCreateGLResources and drawPerspective.  A   *)
(* GPU object is named by its number in order of creation.  What the       *)
(* browser answers to a creation request is an input of the call: failure  *)
(* names the first request that fails, if the call gets to make it.        *)
(***************************************************************************)
MaxDrawCalls == 3
DestinationSizes == {[width |-> 1920, height |-> 1080], [width |-> 640, height |-> 480]}
GLFailures == {"none", "getContext", "vertexShader", "fragmentShader", "createProgram",
               "linkProgram"}

NoGLCache == [canvas |-> <<>>, gl |-> <<>>, program |-> <<>>, positionBuffer |-> <<>>,
              texture |-> <<>>]

\* getOrCreateGLResources(width, height): the cache and the creation counts after
\* the call, and the resources returned, <<>> standing for null
getOrCreateGLResources(cache, created, size, failure) ==
    IF cache.canvas # <<>> /\ cache.gl # <<>> /\ cache.program # <<>>
    THEN [cache |-> [cache EXCEPT !.canvas = <<size>>], created |-> created,
          resources |-> <<[gl |-> cache.gl[1]]>>]
    ELSE IF failure = "getContext"
         THEN [cache |-> cache, created |-> created, resources |-> <<>>]
         ELSE LET gl == created.contexts + 1
                  withContext == [created EXCEPT !.contexts = gl]
              IN  IF failure \in {"vertexShader", "fragmentShader", "createProgram"}
                  THEN [cache |-> cache, created |-> withContext, resources |-> <<>>]
                  ELSE LET program == created.programs + 1
                           withProgram == [withContext EXCEPT !.programs = program]
                       IN  IF failure = "linkProgram"
                           THEN [cache |-> cache, created |-> withProgram,
                                 resources |-> <<>>]
                           ELSE [cache |-> [canvas |-> <<size>>, gl |-> <<gl>>,
                                            program |-> <<program>>,
                                            positionBuffer |-> <<created.buffers + 1>>,
                                            texture |-> <<created.textures + 1>>],
                                 created |-> [withProgram EXCEPT
                                                 !.buffers = created.buffers + 1,
                                                 !.textures = created.textures + 1],
                                 resources |-> <<[gl |-> gl]>>]

InitPerspective ==
    /\ glCache = NoGLCache
    /\ glCreated = [contexts |-> 0, programs |-> 0, buffers |-> 0, textures |-> 0]
    /\ glDraws = <<>>
    /\ IdleClock
    /\ IdlePhotos
    /\ IdleClassifier
    /\ IdleHomography
    /\ IdleClient
    /\ IdleCalibration
    /\ IdleWarp
    /\ IdleShapes
    /\ IdleGoLive
    /\ IdleProjection
    /\ IdleGenerator
    /\ IdleSam
    /\ IdleGpu
    /\ IdleHappyBirthday
    /\ IdleSpotlight
    /\ IdleControl
    /\ IdleSync
    /\ IdleClear
    /\ IdleServer
    /\ IdleMasks
    /\ IdleLoops

\* drawPerspective(destCtx, sourceCanvas, destQuad) on a destination of the given size
DrawPerspectiveCall(size, failure) ==
    /\ Len(glDraws) < MaxDrawCalls
    /\ LET got == getOrCreateGLResources(glCache, glCreated, size, failure)
       IN  /\ glCache' = got.cache
           /\ glCreated' = got.created
           /\ glDraws' = Append(glDraws,
                  IF got.resources = <<>>
                  THEN [size |-> size, path |-> "fallbackDraw", gl |-> <<>>,
                        program |-> <<>>, positionBuffer |-> <<>>, texture |-> <<>>]
                  ELSE [size |-> size, path |-> "webgl", gl |-> <<got.resources[1].gl>>,
                        program |-> got.cache.program,
                        positionBuffer |-> got.cache.positionBuffer,
                        texture |-> got.cache.texture])
    /\ UNCHANGED outsidePerspective

NextPerspective ==
    \E size \in DestinationSizes, failure \in GLFailures : DrawPerspectiveCall(size, failure)

SpecPerspective == InitPerspective /\ [][NextPerspective]_vars

(***************************************************************************)
(* C27: across any sequence of drawPerspective calls the WebGL context,    *)
(* the program, the position buffer and the texture are created at most    *)
(* once, and every later call reuses them, also when the destination size  *)
(* changes between calls.                                                  *)
(***************************************************************************)
GLResourcesCreatedOnce ==
    /\ glCreated.contexts <= 1
    /\ glCreated.programs <= 1
    /\ glCreated.buffers <= 1
    /\ glCreated.textures <= 1
    /\ \A i, j \in 1 .. Len(glDraws) :
          glDraws[i].path = "webgl" /\ glDraws[j].path = "webgl" =>
              /\ glDraws[i].gl = glDraws[j].gl
              /\ glDraws[i].program = glDraws[j].program
              /\ glDraws[i].positionBuffer = glDraws[j].positionBuffer
              /\ glDraws[i].texture = glDraws[j].texture

(***************************************************************************)
(* mask-transform.ts: the GPU objects of one transformMaskToProjector      *)
(* call.  The browser's answers are inputs: whether getContext gives a     *)
(* context, and for each shader and the program whether creation returns   *)
(* null, or compiling or linking fails.                                    *)
(***************************************************************************)
MaxTransforms == 2
ShaderAnswers == {"ok", "null", "compileError"}
ProgramAnswers == {"ok", "null", "linkError"}
BrowserAnswers ==
    [context : BOOLEAN, vertexShader : ShaderAnswers, fragmentShader : ShaderAnswers,
     program : ProgramAnswers]

NoObjects == [created |-> {}, deleted |-> {}]

\* compileShader(gl, type, source) for the shader called name: the shader returned,
\* <<>> standing for null, and the objects created and deleted so far
gpuCompileShader(objects, name, answer) ==
    IF answer = "null" THEN [shader |-> <<>>, objects |-> objects]
    ELSE IF answer = "compileError"
         THEN [shader |-> <<>>,
               objects |-> [created |-> objects.created \cup {name},
                            deleted |-> objects.deleted \cup {name}]]
         ELSE [shader |-> <<name>>,
               objects |-> [objects EXCEPT !.created = @ \cup {name}]]

\* transformMaskToProjector(maskImage, cameraQuad): the path by which it returns and
\* the GPU objects it created and deleted
gpuObjectsOfTransform(answers) ==
    IF ~answers.context THEN [path |-> "fallbackTransform", objects |-> NoObjects]
    ELSE LET vertex == gpuCompileShader(NoObjects, "vertexShader", answers.vertexShader)
             fragment == gpuCompileShader(vertex.objects, "fragmentShader",
                                          answers.fragmentShader)
         IN  IF vertex.shader = <<>> \/ fragment.shader = <<>>
             THEN [path |-> "fallbackTransform", objects |-> fragment.objects]
             ELSE IF answers.program = "null"
                  THEN [path |-> "fallbackTransform", objects |-> fragment.objects]
                  ELSE LET linked == [fragment.objects EXCEPT
                                         !.created = @ \cup {"program"}]
                       IN  IF answers.program = "linkError"
                           THEN [path |-> "fallbackTransform", objects |-> linked]
                           ELSE [path |-> "webgl",
                                 objects |->
                                    [created |-> linked.created
                                                 \cup {"positionBuffer", "texture"},
                                     \* the five delete calls of the cleanup
                                     deleted |-> linked.deleted
                                                 \cup {"texture", "positionBuffer",
                                                       "vertexShader", "fragmentShader",
                                                       "program"}]]

InitGpu ==
    /\ transforms = <<>>
    /\ IdleClock
    /\ IdlePhotos
    /\ IdleClassifier
    /\ IdleHomography
    /\ IdleClient
    /\ IdleCalibration
    /\ IdleWarp
    /\ IdleShapes
    /\ IdleGoLive
    /\ IdleProjection
    /\ IdleGenerator
    /\ IdleSam
    /\ IdlePerspective
    /\ IdleHappyBirthday
    /\ IdleSpotlight
    /\ IdleControl
    /\ IdleSync
    /\ IdleClear
    /\ IdleServer
    /\ IdleMasks
    /\ IdleLoops

\* one call of transformMaskToProjector
TransformMask(answers) ==
    /\ Len(transforms) < MaxTransforms
    /\ transforms' = Append(transforms,
           [answers |-> answers,
            path |-> gpuObjectsOfTransform(answers).path,
            created |-> gpuObjectsOfTransform(answers).objects.created,
            deleted |-> gpuObjectsOfTransform(answers).objects.deleted])
    /\ UNCHANGED outsideGpu

NextGpu == \E answers \in BrowserAnswers : TransformMask(answers)

SpecGpu == InitGpu /\ [][NextGpu]_vars

(***************************************************************************)
(* C28: every GPU object that transformMaskToProjector creates (shaders,   *)
(* program, buffer, texture) is released before the call returns, on every *)
(* path, including the paths that fall back after a shader-compile,        *)
(* program-creation or link failure.                                       *)
(***************************************************************************)
GpuObjectsReleased ==
    \A i \in 1 .. Len(transforms) : transforms[i].created \subseteq transforms[i].deleted

(***************************************************************************)
(* animations/happy-birthday.ts: an animation that has been started and is *)
(* not stopped.  Times are kept relative to the time of the animation      *)
(* (elapsed time of the clock times SPEED_MULTIPLIER): the code compares   *)
(* only now - lastLetterTime and now - phaseStartTime with durations.  The *)
(* opacity, start time and bounding box of a letter are left out: they     *)
(* decide only whether onUpdate is called.                                 *)
(***************************************************************************)
LETTER_DURATION_MS == 7000
END_PAUSE_MS == 10000
RESTART_DELAY_MS == 5000
SPEED_MULTIPLIER == 5
MESSAGE == <<"H", "A", "P", "P", "Y", " ", "B", "I", "R", "T", "H", "D", "A", "Y", " ",
             "P", "K", "O">>

MaxIslandChanges == 1
MaxProviderChanges == 1
\* clock time between two frames, and how far a new clock sets the elapsed time back
HbTimeSteps == {700, 1400}
HbClockSetBack == {1400}
TrailLength == 4

HbBox(cx, cy) == [minX |-> cx - 40, maxX |-> cx + 40, minY |-> cy - 30, maxY |-> cy + 30]

\* what setIslands may be given: at least one valid island
HbIslandSamples ==
    { <<[isIsland |-> TRUE, boundingBox |-> HbBox(300, 100)],
        [isIsland |-> FALSE, boundingBox |-> HbBox(200, 100)],
        [isIsland |-> TRUE, boundingBox |-> HbBox(100, 120)]>>,
      <<[isIsland |-> TRUE, boundingBox |-> HbBox(500, 500)]>>,
      <<[isIsland |-> TRUE, boundingBox |-> HbBox(100, 300)],
        [isIsland |-> TRUE, boundingBox |-> HbBox(200, 100)],
        [isIsland |-> TRUE, boundingBox |-> HbBox(50, 110)]>> }

\* the comparator of getSortedIslands, times 2: negative when a comes first
compareIslands(a, b) ==
    LET aY == a.boundingBox.minY + a.boundingBox.maxY
        bY == b.boundingBox.minY + b.boundingBox.maxY
        aX == a.boundingBox.minX + a.boundingBox.maxX
        bX == b.boundingBox.minX + b.boundingBox.maxX
    IN  IF Abs(aY - bY) > 100 THEN aY - bY ELSE aX - bX

\* Array.prototype.sort on a short array: a stable insertion of the island with index
\* idx into the sorted indices
RECURSIVE insertIsland(_, _, _)
insertIsland(islandList, sorted, idx) ==
    IF sorted = <<>> THEN <<idx>>
    ELSE IF compareIslands(islandList[sorted[Len(sorted)]], islandList[idx]) <= 0
         THEN Append(sorted, idx)
         ELSE Append(insertIsland(islandList, SubSeq(sorted, 1, Len(sorted) - 1), idx),
                     sorted[Len(sorted)])

RECURSIVE sortedUpTo(_, _)
sortedUpTo(islandList, n) ==
    IF n = 0 THEN <<>>
    ELSE \* the set binds the islands sorted so far to a value, computed once
         CHOOSE sorted \in {IF islandList[n].isIsland
                            THEN insertIsland(islandList, before, n)
                            ELSE before : before \in {sortedUpTo(islandList, n - 1)}} : TRUE

\* getSortedIslands(): the valid islands in slot order, each named by its index in
\* state.islands (state.islands.indexOf(island))
getSortedIslands(islandList) == sortedUpTo(islandList, Len(islandList))

NoLetters == [i \in {} |-> [islandIndex |-> i, letter |-> ""]]

\* a mutation of shiftLetters: every letter moves two slots down
shiftLettersByTwo(letterMap, sortedIslands) ==
    LET moved == {slot \in 3 .. Len(sortedIslands) : sortedIslands[slot] \in DOMAIN letterMap}
    IN  [newIslandIndex \in {sortedIslands[slot - 2] : slot \in moved} |->
            LET slot == CHOOSE t \in moved : sortedIslands[t - 2] = newIslandIndex
            IN  [letterMap[sortedIslands[slot]] EXCEPT !.islandIndex = newIslandIndex]]

\* shiftLetters(now): the letters after the shift
shiftLetters(letterMap, sortedIslands) ==
    IF Len(sortedIslands) = 0 THEN letterMap
    ELSE LET moved == {slot \in 2 .. Len(sortedIslands) :
                          sortedIslands[slot] \in DOMAIN letterMap}
         IN  [newIslandIndex \in {sortedIslands[slot - 1] : slot \in moved} |->
                 LET slot == CHOOSE t \in moved : sortedIslands[t - 1] = newIslandIndex
                 IN  [letterMap[sortedIslands[slot]] EXCEPT !.islandIndex = newIslandIndex]]

\* timeSincePhaseStart >= END_PAUSE_MS, timeSincePhaseStart >= RESTART_DELAY_MS
pauseComplete(timeSincePhaseStart, duration) == timeSincePhaseStart >= duration

\* letters.set(islandIndex, ...)
setLetter(letterMap, islandIndex, letter) ==
    [i \in DOMAIN letterMap \cup {islandIndex} |->
        IF i = islandIndex THEN [islandIndex |-> islandIndex, letter |-> letter]
        ELSE letterMap[i]]

\* addNextLetter(now) on the state st
addNextLetter(st) ==
    LET sortedIslands == getSortedIslands(st.islands)
    IN  IF Len(sortedIslands) = 0 THEN st
        ELSE LET lastSlotIslandIndex == sortedIslands[Len(sortedIslands)]
                 shifted == IF lastSlotIslandIndex \in DOMAIN st.letters
                            THEN shiftLetters(st.letters, sortedIslands)
                            ELSE st.letters
                 letter == MESSAGE[st.currentLetterIndex + 1]
                 next == (st.currentLetterIndex + 1) % Len(MESSAGE)
             IN  [st EXCEPT !.letters = setLetter(shifted, lastSlotIslandIndex, letter),
                            !.currentLetterIndex = next,
                            !.phase = IF next = 0 THEN "end-pause" ELSE st.phase,
                            !.sincePhaseStart = IF next = 0 THEN 0 ELSE st.sincePhaseStart,
                            !.sinceLastLetter = 0,
                            !.added = <<letter>>]

\* tick() on the state st
hbTick(st) ==
    IF st.phase = "end-pause"
    THEN IF pauseComplete(st.sincePhaseStart, END_PAUSE_MS)
         THEN [st EXCEPT !.letters = NoLetters, !.phase = "cleared-pause",
                         !.sincePhaseStart = 0]
         ELSE st
    ELSE IF st.phase = "cleared-pause"
         THEN IF pauseComplete(st.sincePhaseStart, RESTART_DELAY_MS)
              THEN [st EXCEPT !.phase = "playing", !.currentLetterIndex = 0,
                              !.sinceLastLetter = 0]
              ELSE st
         ELSE IF st.sinceLastLetter >= LETTER_DURATION_MS \/ DOMAIN st.letters = {}
              THEN addNextLetter(st)
              ELSE st

\* the last n elements of a sequence
LastOf(seq, n) == IF Len(seq) <= n THEN seq ELSE SubSeq(seq, Len(seq) - n + 1, Len(seq))

\* start() has been called on an animation that was given its islands
InitHappyBirthday ==
    /\ hbIslands \in HbIslandSamples
    /\ letters = NoLetters
    /\ currentLetterIndex = 0
    /\ phase = "playing"
    /\ \E now \in {0, END_PAUSE_MS} :
          /\ sinceLastLetter = Min(LETTER_DURATION_MS, now)
          /\ sincePhaseStart = now
    /\ lastAdded = <<>>
    /\ phaseTrail = <<"playing">>
    /\ islandChanges = 0
    /\ providerChanges = 0
    /\ pauseClock = 0
    /\ IdleClock
    /\ IdlePhotos
    /\ IdleClassifier
    /\ IdleHomography
    /\ IdleClient
    /\ IdleCalibration
    /\ IdleWarp
    /\ IdleShapes
    /\ IdleGoLive
    /\ IdleProjection
    /\ IdleGenerator
    /\ IdleSam
    /\ IdlePerspective
    /\ IdleGpu
    /\ IdleSpotlight
    /\ IdleControl
    /\ IdleSync
    /\ IdleClear
    /\ IdleServer
    /\ IdleMasks
    /\ IdleLoops

\* the clock runs on for dt between two callbacks
HbTimePasses(dt) ==
    /\ sinceLastLetter' = Min(LETTER_DURATION_MS, sinceLastLetter + dt * SPEED_MULTIPLIER)
    /\ sincePhaseStart' = Min(END_PAUSE_MS, sincePhaseStart + dt * SPEED_MULTIPLIER)
    /\ pauseClock' = IF phase = "playing" THEN 0 ELSE Min(END_PAUSE_MS, pauseClock + dt)
    /\ UNCHANGED <<hbIslands, letters, currentLetterIndex, phase, lastAdded, phaseTrail,
                   islandChanges, providerChanges>>
    /\ UNCHANGED outsideHappyBirthday

\* tick() as the frame callback
HbTick ==
    /\ \E st \in {hbTick([islands |-> hbIslands, letters |-> letters,
                          currentLetterIndex |-> currentLetterIndex, phase |-> phase,
                          sinceLastLetter |-> sinceLastLetter,
                          sincePhaseStart |-> sincePhaseStart, added |-> <<>>])} :
           /\ letters' = st.letters
           /\ currentLetterIndex' = st.currentLetterIndex
           /\ phase' = st.phase
           /\ sinceLastLetter' = st.sinceLastLetter
           /\ sincePhaseStart' = st.sincePhaseStart
           /\ lastAdded' = IF DOMAIN st.letters = {} THEN <<>>
                           ELSE LastOf(lastAdded \o st.added, Len(hbIslands))
           /\ phaseTrail' = IF st.phase = phase THEN phaseTrail
                            ELSE LastOf(Append(phaseTrail, st.phase), TrailLength)
           /\ pauseClock' = IF st.phase = phase THEN pauseClock ELSE 0
    /\ UNCHANGED <<hbIslands, islandChanges, providerChanges>>
    /\ UNCHANGED outsideHappyBirthday

\* setIslands(islands); lastLetterTime = 0 makes now - lastLetterTime the time now,
\* which is not below what it was
HbSetIslands(islandList) ==
    /\ islandChanges < MaxIslandChanges
    /\ islandChanges' = islandChanges + 1
    /\ hbIslands' = islandList
    /\ letters' = NoLetters
    /\ currentLetterIndex' = 0
    /\ sinceLastLetter' \in {sinceLastLetter, LETTER_DURATION_MS}
    /\ lastAdded' = <<>>
    /\ UNCHANGED <<phase, sincePhaseStart, phaseTrail, providerChanges, pauseClock>>
    /\ UNCHANGED outsideHappyBirthday

\* setClockProvider(provider): the elapsed time of the new clock is behind that of
\* the old one
HbSetClockProvider(back) ==
    /\ providerChanges < MaxProviderChanges
    /\ providerChanges' = providerChanges + 1
    /\ sinceLastLetter' = sinceLastLetter - back * SPEED_MULTIPLIER
    /\ sincePhaseStart' = sincePhaseStart - back * SPEED_MULTIPLIER
    /\ UNCHANGED <<hbIslands, letters, currentLetterIndex, phase, lastAdded, phaseTrail,
                   islandChanges, pauseClock>>
    /\ UNCHANGED outsideHappyBirthday

NextHappyBirthday ==
    \/ \E dt \in HbTimeSteps : HbTimePasses(dt)
    \/ HbTick
    \/ \E islandList \in HbIslandSamples : HbSetIslands(islandList)
    \/ \E back \in HbClockSetBack : HbSetClockProvider(back)

SpecHappyBirthday == InitHappyBirthday /\ [][NextHappyBirthday]_vars

\* frames keep coming and the clock keeps running
SpecHappyBirthdayFair ==
    /\ SpecHappyBirthday
    /\ WF_vars(HbTick)
    /\ WF_vars(\E dt \in HbTimeSteps : HbTimePasses(dt))

(***************************************************************************)
(* C29: while the animation runs with at least one island, its phase       *)
(* changes only from playing to end-pause, at the moment the last letter   *)
(* of the message is added; from end-pause to cleared-pause, once          *)
(* END_PAUSE_MS has passed, removing all letters; and from cleared-pause   *)
(* to playing, once RESTART_DELAY_MS has passed, restarting at the first   *)
(* letter; and this cycle repeats forever.  The time that has passed is    *)
(* the time of the clock since the pause began.                            *)
(***************************************************************************)
\* a step that changes the phase, with pauseTime the time passed since the pause began
PhaseStepAfter(pauseTime) ==
    phase' # phase =>
        \/ /\ phase = "playing" /\ phase' = "end-pause"
           /\ currentLetterIndex = Len(MESSAGE) - 1
           /\ lastAdded' # <<>>
           /\ lastAdded'[Len(lastAdded')] = MESSAGE[Len(MESSAGE)]
           /\ \E i \in DOMAIN letters' : letters'[i].letter = MESSAGE[Len(MESSAGE)]
        \/ /\ phase = "end-pause" /\ phase' = "cleared-pause"
           /\ pauseTime >= END_PAUSE_MS
           /\ DOMAIN letters' = {}
        \/ /\ phase = "cleared-pause" /\ phase' = "playing"
           /\ pauseTime >= RESTART_DELAY_MS
           /\ currentLetterIndex' = 0
           /\ DOMAIN letters' = {}

CycleRepeats ==
    /\ []<>(phase = "playing")
    /\ []<>(phase = "end-pause")
    /\ []<>(phase = "cleared-pause")

PhaseCycleForever == [][PhaseStepAfter(pauseClock)]_vars /\ CycleRepeats

\* the same with the pauses measured in the time of the animation, which is the time
\* of the clock times SPEED_MULTIPLIER
PhaseCycleInAnimationTime == [][PhaseStepAfter(sincePhaseStart)]_vars /\ CycleRepeats

\* a whole cycle has been gone through, with a change of islands and of clock on the
\* way, and the second round shows its first letter
SecondRoundBegun ==
    /\ phaseTrail = <<"playing", "end-pause", "cleared-pause", "playing">>
    /\ islandChanges = 1
    /\ providerChanges = 1
    /\ currentLetterIndex = 1
    /\ \E i \in DOMAIN letters : letters[i].letter = MESSAGE[1]

(***************************************************************************)
(* C30: at every moment of the playing phase the letters on display, read  *)
(* in slot order, are the last k characters added (consecutive characters  *)
(* of the message, in message order), they occupy the k highest-numbered   *)
(* island slots with one letter per slot, and k never exceeds the number   *)
(* of island slots.                                                        *)
(***************************************************************************)
LettersFillLastSlots ==
    phase = "playing" =>
        LET sortedIslands == getSortedIslands(hbIslands)
            n == Len(sortedIslands)
            k == Cardinality(DOMAIN letters)
        IN  /\ k <= n
            /\ DOMAIN letters = {sortedIslands[slot] : slot \in n - k + 1 .. n}
            /\ \A i \in DOMAIN letters : letters[i].islandIndex = i
            /\ k <= Len(lastAdded)
            /\ k <= currentLetterIndex
            /\ \A j \in 1 .. k :
                  /\ letters[sortedIslands[n - k + j]].letter
                        = lastAdded[Len(lastAdded) - k + j]
                  /\ letters[sortedIslands[n - k + j]].letter
                        = MESSAGE[currentLetterIndex - k + j]

\* three slots are full and letters have left the display: P, Y and the space are
\* shown in the slots 0, 1 and 2, which are the islands 3, 2 and 1
LettersFillLastSlotsWitness ==
    /\ phase = "playing"
    /\ Len(hbIslands) = 3
    /\ getSortedIslands(hbIslands) = <<3, 2, 1>>
    /\ currentLetterIndex = 6
    /\ DOMAIN letters = {1, 2, 3}
    /\ letters[3].letter = "P" /\ letters[2].letter = "Y" /\ letters[1].letter = " "


(***************************************************************************)
(* Spotlight animation (spotlight.ts): spotlights are born one at a time,  *)
(* each takes the leftmost pom-pom that has none, pulses, pans to it and   *)
(* holds there.                                                            *)
(***************************************************************************)
PULSE_DURATION_MS == 800
PAN_DURATION_MS == 1500
NEW_SPOTLIGHT_INTERVAL_MS == 2000
INTRO_PULSE_COUNT == 3

\* the clock readings a frame may see: how far the clock moved since the last frame
MaxSpotAdvances == 5
SpotTimeSteps == {NEW_SPOTLIGHT_INTERVAL_MS}

\* pom-poms as the animation uses them: index and centre x
PomPom(i, x) == [index |-> i, x |-> x]

\* pom-pom lists of the shared state: distinct indices, any order of positions
PomPomSamples ==
    { <<PomPom(0, 10)>>,
      <<PomPom(0, 10), PomPom(1, 30)>>,
      <<PomPom(1, 30), PomPom(0, 40)>> }

\* the fields of the animation's state object, and what the browser holds for it
SpotState ==
    [pomPoms |-> spotPomPoms, assignedPomPoms |-> assignedPomPoms,
     internalSpotlights |-> internalSpotlights, nextSpotlightId |-> nextSpotlightId,
     running |-> spotRunning, animationFrameId |-> spotFrameId, frames |-> spotFrames,
     lastNewSpotlightTime |-> lastNewSpotlightTime, callback |-> spotCallback]

SpotBecomes(st) ==
    /\ spotPomPoms' = st.pomPoms
    /\ assignedPomPoms' = st.assignedPomPoms
    /\ internalSpotlights' = st.internalSpotlights
    /\ nextSpotlightId' = st.nextSpotlightId
    /\ spotRunning' = st.running
    /\ spotFrameId' = st.animationFrameId
    /\ spotFrames' = st.frames
    /\ lastNewSpotlightTime' = st.lastNewSpotlightTime
    /\ spotCallback' = st.callback

\* requestAnimationFrame(animate): the browser hands out a handle no pending
\* callback has
requestAnimate(st) ==
    LET id == CHOOSE n \in 1..(Cardinality(st.frames) + 2) :
                  /\ n \notin st.frames
                  /\ <<n>> # st.animationFrameId
                  /\ \A m \in 1..(n - 1) : m \in st.frames \/ <<m>> = st.animationFrameId
    IN  [st EXCEPT !.animationFrameId = <<id>>, !.frames = @ \cup {id}]

\* pomPoms.filter(p => !assignedPomPoms.has(p.index))
unassignedPomPoms(st) ==
    LET free(p) == p.index \notin st.assignedPomPoms
    IN  SelectSeq(st.pomPoms, free)

\* .sort((a, b) => a.center.x - b.center.x)[0]: the leftmost, the earlier one on a tie
leftmostPomPom(list) ==
    LET i == CHOOSE k \in 1..Len(list) :
                 \A j \in 1..Len(list) :
                     \/ list[j].x > list[k].x
                     \/ list[j].x = list[k].x /\ j >= k
    IN  list[i]

\* createNewSpotlight and the push of its result, when there is an unassigned pom-pom
createNewSpotlight(st, now) ==
    LET targetPomPom == leftmostPomPom(unassignedPomPoms(st))
        spotlight == [id |-> st.nextSpotlightId,
                      targetPomPomIndex |-> targetPomPom.index,
                      phase |-> "intro", startTime |-> now, panStartTime |-> 0]
    IN  [st EXCEPT !.assignedPomPoms = @ \cup {targetPomPom.index},
                   !.nextSpotlightId = @ + 1,
                   !.internalSpotlights = Append(@, spotlight),
                   !.lastNewSpotlightTime = now]

\* a spotlight that never settles: panning ends only when the target is gone
updateSpotlightNeverArrives(spotlight, now, pomPoms) ==
    IF spotlight.phase = "intro"
    THEN IF now - spotlight.startTime >= PULSE_DURATION_MS * INTRO_PULSE_COUNT
         THEN [spotlight EXCEPT !.phase = "panning", !.panStartTime = now]
         ELSE spotlight
    ELSE IF spotlight.phase = "panning"
    THEN IF \A i \in 1..Len(pomPoms) : pomPoms[i].index # spotlight.targetPomPomIndex
         THEN [spotlight EXCEPT !.phase = "holding"]
         ELSE spotlight
    ELSE spotlight

\* updateSpotlight: the phase of one spotlight after a frame at time now
updateSpotlight(spotlight, now, pomPoms) ==
    IF spotlight.phase = "intro"
    THEN IF now - spotlight.startTime >= PULSE_DURATION_MS * INTRO_PULSE_COUNT
         THEN [spotlight EXCEPT !.phase = "panning", !.panStartTime = now]
         ELSE spotlight
    ELSE IF spotlight.phase = "panning"
    THEN IF \/ \A i \in 1..Len(pomPoms) : pomPoms[i].index # spotlight.targetPomPomIndex
            \/ now - spotlight.panStartTime >= PAN_DURATION_MS
         THEN [spotlight EXCEPT !.phase = "holding"]
         ELSE spotlight
    ELSE spotlight

\* animate() on a running animation, the clock reading now
animate(st, now) ==
    LET hasUnassignedPomPoms ==
            \E i \in 1..Len(st.pomPoms) : st.pomPoms[i].index \notin st.assignedPomPoms
        born == IF hasUnassignedPomPoms
                   /\ (\/ Len(st.internalSpotlights) = 0
                       \/ now - st.lastNewSpotlightTime >= NEW_SPOTLIGHT_INTERVAL_MS)
                THEN createNewSpotlight(st, now)
                ELSE st
        updated == [born EXCEPT !.internalSpotlights =
                        [k \in 1..Len(@) |-> updateSpotlight(@[k], now, st.pomPoms)],
                                !.callback = "animate"]
    IN  requestAnimate(updated)

\* start()
spotStart(st) ==
    IF st.running THEN st
    ELSE requestAnimate([st EXCEPT !.running = TRUE, !.assignedPomPoms = {},
                                   !.internalSpotlights = <<>>,
                                   !.lastNewSpotlightTime = 0, !.nextSpotlightId = 0])

\* stop()
spotStop(st) ==
    [st EXCEPT !.running = FALSE,
               !.frames = IF st.animationFrameId # <<>> THEN @ \ {st.animationFrameId[1]} ELSE @,
               !.animationFrameId = <<>>,
               !.internalSpotlights = <<>>,
               !.assignedPomPoms = {},
               !.callback = "stop"]

\* setPomPoms(pomPoms)
spotSetPomPoms(st, pomPoms) ==
    [st EXCEPT !.pomPoms = pomPoms, !.assignedPomPoms = {}]

\* createSpotlightAnimation has returned and the page has not yet seen pom-poms
InitSpotlight ==
    /\ spotPomPoms = <<>>
    /\ assignedPomPoms = {}
    /\ internalSpotlights = <<>>
    /\ nextSpotlightId = 0
    /\ spotRunning = FALSE
    /\ spotFrameId = <<>>
    /\ spotFrames = {}
    /\ lastNewSpotlightTime = 0
    /\ spotNow = 0
    /\ spotAdvances = 0
    /\ spotCallback = "none"
    /\ lastPomPomState = <<>>
    /\ IdleClock
    /\ IdlePhotos
    /\ IdleClassifier
    /\ IdleHomography
    /\ IdleClient
    /\ IdleCalibration
    /\ IdleWarp
    /\ IdleShapes
    /\ IdleGoLive
    /\ IdleProjection
    /\ IdleGenerator
    /\ IdleSam
    /\ IdlePerspective
    /\ IdleGpu
    /\ IdleHappyBirthday
    /\ IdleControl
    /\ IdleSync
    /\ IdleClear
    /\ IdleServer
    /\ IdleMasks
    /\ IdleLoops

\* the browser runs a frame callback of animate; the clock has moved by dt since
\* the frame before
SpotAnimate(dt) ==
    /\ dt > 0 => spotAdvances < MaxSpotAdvances
    /\ \E f \in spotFrames :
          \E st \in {[SpotState EXCEPT !.frames = @ \ {f}]} :
             SpotBecomes(IF st.running THEN animate(st, spotNow + dt) ELSE st)
    /\ spotNow' = spotNow + dt
    /\ spotAdvances' = IF dt > 0 THEN spotAdvances + 1 ELSE spotAdvances
    /\ UNCHANGED lastPomPomState
    /\ UNCHANGED outsideSpotlight

SpotStart ==
    /\ SpotBecomes(spotStart(SpotState))
    /\ UNCHANGED <<spotNow, spotAdvances, lastPomPomState>>
    /\ UNCHANGED outsideSpotlight

SpotStop ==
    /\ SpotBecomes(spotStop(SpotState))
    /\ UNCHANGED <<spotNow, spotAdvances, lastPomPomState>>
    /\ UNCHANGED outsideSpotlight

SpotSetPomPoms(pomPoms) ==
    /\ SpotBecomes(spotSetPomPoms(SpotState, pomPoms))
    /\ UNCHANGED <<spotNow, spotAdvances, lastPomPomState>>
    /\ UNCHANGED outsideSpotlight

\* the pom-pom effect of the projection page runs on a shared state holding
\* these pom-poms and this master toggle
PomPomEffect(pomPoms, animationsEnabled) ==
    LET currentState == <<animationsEnabled, Len(pomPoms)>>
    IN  IF Len(pomPoms) > 0
        THEN \E given \in {IF currentState # lastPomPomState
                           THEN spotSetPomPoms(SpotState, pomPoms)
                           ELSE SpotState} :
                /\ lastPomPomState' = currentState
                /\ SpotBecomes(IF animationsEnabled THEN spotStart(given)
                                                    ELSE spotStop(given))
                /\ UNCHANGED <<spotNow, spotAdvances>>
                /\ UNCHANGED outsideSpotlight
        ELSE /\ SpotBecomes(spotStop(SpotState))
             /\ UNCHANGED <<spotNow, spotAdvances, lastPomPomState>>
             /\ UNCHANGED outsideSpotlight

NextSpotlight ==
    \/ \E dt \in {0} \cup SpotTimeSteps : SpotAnimate(dt)
    \/ SpotStart
    \/ SpotStop
    \/ \E pomPoms \in PomPomSamples : SpotSetPomPoms(pomPoms)
    \/ \E pomPoms \in PomPomSamples \cup {<<>>}, animationsEnabled \in BOOLEAN :
          PomPomEffect(pomPoms, animationsEnabled)

SpecSpotlight == InitSpotlight /\ [][NextSpotlight]_vars

(***************************************************************************)
(* C31: at every moment no two live spotlights target the same pom-pom,    *)
(* whatever the order of start, stop, setPomPoms and animation frames.     *)
(***************************************************************************)
OneSpotlightPerPomPom ==
    spotRunning \in BOOLEAN =>
        \A i, j \in 1..Len(internalSpotlights) :
            i # j => internalSpotlights[i].targetPomPomIndex
                       # internalSpotlights[j].targetPomPomIndex

\* two spotlights are live at once
TwoSpotlightsLive ==
    /\ spotRunning \in BOOLEAN
    /\ Len(internalSpotlights) >= 2


\* the animation object before the page has given it anything
NewSpotlightState ==
    [pomPoms |-> <<>>, assignedPomPoms |-> {}, internalSpotlights |-> <<>>,
     nextSpotlightId |-> 0, running |-> FALSE, animationFrameId |-> <<>>, frames |-> {},
     lastNewSpotlightTime |-> 0, callback |-> "none"]

\* the states from which the pom-pom set stays fixed: just started with the set, or
\* running with a first spotlight when the set arrives
RunningSpotlightStates ==
    {spotStart(spotSetPomPoms(NewSpotlightState, pomPoms)) : pomPoms \in PomPomSamples}
    \cup {spotSetPomPoms(animate([started EXCEPT !.frames = {}], 0), pomPoms) :
            started \in {spotStart(spotSetPomPoms(NewSpotlightState, before)) :
                            before \in PomPomSamples},
            pomPoms \in PomPomSamples}

InitSpotlightRunning ==
    /\ \E st \in RunningSpotlightStates :
          /\ spotPomPoms = st.pomPoms
          /\ assignedPomPoms = st.assignedPomPoms
          /\ internalSpotlights = st.internalSpotlights
          /\ nextSpotlightId = st.nextSpotlightId
          /\ spotRunning = st.running
          /\ spotFrameId = st.animationFrameId
          /\ spotFrames = st.frames
          /\ lastNewSpotlightTime = st.lastNewSpotlightTime
          /\ spotCallback = st.callback
    /\ spotNow = 0
    /\ spotAdvances = 0
    /\ lastPomPomState = <<TRUE, Len(spotPomPoms)>>
    /\ IdleClock
    /\ IdlePhotos
    /\ IdleClassifier
    /\ IdleHomography
    /\ IdleClient
    /\ IdleCalibration
    /\ IdleWarp
    /\ IdleShapes
    /\ IdleGoLive
    /\ IdleProjection
    /\ IdleGenerator
    /\ IdleSam
    /\ IdlePerspective
    /\ IdleGpu
    /\ IdleHappyBirthday
    /\ IdleControl
    /\ IdleSync
    /\ IdleClear
    /\ IdleServer
    /\ IdleMasks
    /\ IdleLoops

\* nothing but frames happens to the animation
NextSpotlightRunning ==
    \E dt \in {0} \cup SpotTimeSteps : SpotAnimate(dt)

SpecSpotlightRunning == InitSpotlightRunning /\ [][NextSpotlightRunning]_vars

\* the browser keeps calling the frame callback and the clock keeps moving
SpecSpotlightRunningFair ==
    /\ SpecSpotlightRunning
    /\ WF_vars(\E dt \in SpotTimeSteps : SpotAnimate(dt))

\* every pom-pom of the set has a spotlight in the holding phase
AllPomPomsHeld ==
    \A i \in 1..Len(spotPomPoms) :
        \E k \in 1..Len(internalSpotlights) :
            /\ internalSpotlights[k].targetPomPomIndex = spotPomPoms[i].index
            /\ internalSpotlights[k].phase = "holding"

(***************************************************************************)
(* C32: while the animation keeps running with a fixed non-empty pom-pom   *)
(* set, every pom-pom eventually has a spotlight that reaches the holding  *)
(* phase and stays in it.                                                  *)
(***************************************************************************)
EveryPomPomHeldForGood == <>[](spotRunning = TRUE /\ AllPomPomsHeld)

\* two pom-poms, both held
EveryPomPomHeldWitness ==
    /\ spotRunning = TRUE
    /\ Len(spotPomPoms) = 2
    /\ AllPomPomsHeld


(***************************************************************************)
(* Projection page: the sub-mask effect loads the island image and hands   *)
(* the islands to the island animations; the animation-control effect      *)
(* starts and stops them from the toggles of the shared state.             *)
(***************************************************************************)
MaxStateChanges == 3

\* subMasks of the wall-texture mask: none, or the island image with its components
SubMaskSamples ==
    { <<>>,
      <<[components |-> 0, islands |-> "imageA"]>>,
      <<[components |-> 2, islands |-> "imageA"]>>,
      <<[components |-> 3, islands |-> "imageB"]>> }

\* the shared states the server may hand to the page; a missing toggle reads as true
SharedPlaySamples ==
    [animationsEnabled : BOOLEAN, islandPhotosPlaying : BOOLEAN, subMasks : SubMaskSamples]

\* onMount has completed: the animations exist, no mask has been seen
InitControl ==
    /\ sharedPlay = [animationsEnabled |-> TRUE, islandPhotosPlaying |-> TRUE,
                     subMasks |-> <<>>]
    /\ pageEffects = {}
    /\ lastSubMasksState = <<>>
    /\ islandImageLoads = {}
    /\ islandsMaskCanvas = <<>>
    /\ photosAnimIslands = 0
    /\ photosAnimRunning = FALSE
    /\ stateChanges = 0
    /\ IdleClock
    /\ IdlePhotos
    /\ IdleClassifier
    /\ IdleHomography
    /\ IdleClient
    /\ IdleCalibration
    /\ IdleWarp
    /\ IdleShapes
    /\ IdleGoLive
    /\ IdleProjection
    /\ IdleGenerator
    /\ IdleSam
    /\ IdlePerspective
    /\ IdleGpu
    /\ IdleHappyBirthday
    /\ IdleSpotlight
    /\ IdleSync
    /\ IdleClear
    /\ IdleServer
    /\ IdleMasks
    /\ IdleLoops

\* a poll replaces appState.current; the effects that read it are scheduled and run
\* before the browser handles anything else
SharedStateArrives(new) ==
    /\ stateChanges < MaxStateChanges
    /\ pageEffects = {}
    /\ stateChanges' = stateChanges + 1
    /\ sharedPlay' = new
    /\ pageEffects' = {"subMasks", "control"}
    /\ UNCHANGED <<lastSubMasksState, islandImageLoads, islandsMaskCanvas,
                   photosAnimIslands, photosAnimRunning>>
    /\ UNCHANGED outsideControl

\* $effect watching the sub-masks: a new island image starts loading
SubMasksEffect ==
    /\ "subMasks" \in pageEffects
    /\ pageEffects' = pageEffects \ {"subMasks"}
    /\ IF sharedPlay.subMasks # <<>>
       THEN LET wallSubMasks == sharedPlay.subMasks[1]
                currentState == <<wallSubMasks.components, wallSubMasks.islands>>
            IN  IF currentState # lastSubMasksState
                THEN /\ lastSubMasksState' = currentState
                     /\ islandImageLoads' = islandImageLoads \cup
                            {[componentsToUse |-> wallSubMasks.components,
                              imageSrc |-> wallSubMasks.islands]}
                ELSE UNCHANGED <<lastSubMasksState, islandImageLoads>>
       ELSE UNCHANGED <<lastSubMasksState, islandImageLoads>>
    /\ UNCHANGED <<sharedPlay, islandsMaskCanvas, photosAnimIslands, photosAnimRunning,
                   stateChanges>>
    /\ UNCHANGED outsideControl

\* $effect controlling the animations, the part for island photos
AnimationControlEffect ==
    /\ "control" \in pageEffects
    /\ pageEffects' = pageEffects \ {"control"}
    /\ photosAnimRunning' = (/\ sharedPlay.animationsEnabled
                             /\ sharedPlay.islandPhotosPlaying
                             /\ islandsMaskCanvas # <<>>)
    /\ UNCHANGED <<sharedPlay, lastSubMasksState, islandImageLoads, islandsMaskCanvas,
                   photosAnimIslands, stateChanges>>
    /\ UNCHANGED outsideControl

\* img.onload of an island image
IslandImageLoaded ==
    /\ pageEffects = {}
    /\ \E load \in islandImageLoads :
          /\ islandImageLoads' = islandImageLoads \ {load}
          /\ islandsMaskCanvas' = <<load.imageSrc>>
          /\ IF load.componentsToUse > 0
             THEN /\ photosAnimIslands' = load.componentsToUse
                  /\ photosAnimRunning' = TRUE
             ELSE UNCHANGED <<photosAnimIslands, photosAnimRunning>>
    /\ UNCHANGED <<sharedPlay, pageEffects, lastSubMasksState, stateChanges>>
    /\ UNCHANGED outsideControl

NextControl ==
    \/ \E new \in SharedPlaySamples : SharedStateArrives(new)
    \/ SubMasksEffect
    \/ AnimationControlEffect
    \/ IslandImageLoaded

SpecControl == InitControl /\ [][NextControl]_vars

(***************************************************************************)
(* C33: whenever the shared state has animations disabled or               *)
(* islandPhotosPlaying false and the page has processed that state, the    *)
(* island-photos animation is not running, also after the island image has *)
(* finished loading.                                                       *)
(***************************************************************************)
PausedPhotosStayStopped ==
    (/\ photosAnimRunning \in BOOLEAN
     /\ pageEffects = {}
     /\ ~(sharedPlay.animationsEnabled /\ sharedPlay.islandPhotosPlaying))
        => ~photosAnimRunning


(***************************************************************************)
(* animations/island-photos.ts: the render loop of the island photos when  *)
(* the page replaces the clock provider (a new animation clock was         *)
(* published) between frames.                                              *)
(***************************************************************************)
MaxClockSequence == 2
MaxClockedFrames == 3
MaxClockedAdvances == 2

\* setClockProvider(provider), the provider built from a clock published at this
\* moment: its elapsed time starts again and its generators are new
PhotoSetClockProvider(seed) ==
    /\ sharedClock.sequenceNumber < MaxClockSequence
    /\ sharedClock' = [startedAt |-> wallClock, seed |-> seed,
                       sequenceNumber |-> sharedClock.sequenceNumber + 1]
    /\ loopPrng' = [loopPrng EXCEPT ![PhotoLoop] = [ns \in PhotoNamespaces |-> NoPRNG]]
    /\ UNCHANGED <<wallClock, islands, running, animationFrameId, lastElapsedTime,
                   photos, imagesLoaded, pendingLoads, decisions, frames, advances>>
    /\ UNCHANGED outsidePhotos

ClockedTimePasses(dt) == advances < MaxClockedAdvances /\ elapse(dt)

ClockedFrame == frames[PhotoLoop] < MaxClockedFrames /\ tick(PhotoLoop)

NextPhotoClocks ==
    \/ \E dt \in PhotoTimeSteps : ClockedTimePasses(dt)
    \/ ClockedFrame
    \/ PhotoImageLoaded
    \/ \E seed \in SeedSamples \ {sharedClock.seed} : PhotoSetClockProvider(seed)

SpecPhotoClocks == InitIslandPhotos /\ [][NextPhotoClocks]_vars

(***************************************************************************)
(* C34: every photo the island-photos animation holds has an opacity       *)
(* within [0, 1] after every frame, across any sequence of frames and      *)
(* clock-provider replacements.                                            *)
(***************************************************************************)
OpacityWithinUnitInterval ==
    running \in [Loops -> BOOLEAN] =>
        \A i \in DOMAIN photos[PhotoLoop] :
            /\ photos[PhotoLoop][i].opacity >= 0
            /\ photos[PhotoLoop][i].opacity <= OpacityUnit

\* the property on runs in which the clock provider is never replaced
OpacityWithinUnitIntervalOneClock ==
    (running \in [Loops -> BOOLEAN] /\ sharedClock.sequenceNumber = 1) =>
        \A i \in DOMAIN photos[PhotoLoop] :
            /\ photos[PhotoLoop][i].opacity >= 0
            /\ photos[PhotoLoop][i].opacity <= OpacityUnit


(***************************************************************************)
(* state.svelte.ts on one client: updateState and the polling fetchState   *)
(* both copy the state of their response into _state.  The server handles  *)
(* one request as one step; responses reach the client in any order.       *)
(***************************************************************************)
MaxSyncUpdates == 2
MaxSyncPolls == 2

\* the partial states the client posts
SyncPartials == {[mode |-> "projecting"], [mode |-> "idle"],
                 [animationClock |-> <<[startedAt |-> 7, seed |-> 1, sequenceNumber |-> 1]>>]}

InitSync ==
    /\ serverHistory = <<DEFAULT_STATE>>
    /\ syncRequests = {}
    /\ syncResponses = {}
    /\ clientState = DEFAULT_STATE
    /\ clientAt = 1
    /\ resolvedAt = 0
    /\ updatesSent = 0
    /\ pollsSent = 0
    /\ IdleClock
    /\ IdlePhotos
    /\ IdleClassifier
    /\ IdleHomography
    /\ IdleClient
    /\ IdleCalibration
    /\ IdleWarp
    /\ IdleShapes
    /\ IdleGoLive
    /\ IdleProjection
    /\ IdleGenerator
    /\ IdleSam
    /\ IdlePerspective
    /\ IdleGpu
    /\ IdleHappyBirthday
    /\ IdleSpotlight
    /\ IdleControl
    /\ IdleClear
    /\ IdleServer
    /\ IdleMasks
    /\ IdleLoops

\* updateState(partial) up to its fetch
SyncUpdateState(partial) ==
    /\ updatesSent < MaxSyncUpdates
    /\ updatesSent' = updatesSent + 1
    /\ syncRequests' = syncRequests \cup
            {[kind |-> "update", n |-> updatesSent', partial |-> partial]}
    /\ UNCHANGED <<serverHistory, syncResponses, clientState, clientAt, resolvedAt,
                   pollsSent>>
    /\ UNCHANGED outsideSync

\* fetchState() up to its fetch: the polling interval has fired
SyncFetchState ==
    /\ pollsSent < MaxSyncPolls
    /\ pollsSent' = pollsSent + 1
    /\ syncRequests' = syncRequests \cup
            {[kind |-> "poll", n |-> pollsSent', partial |-> <<>>]}
    /\ UNCHANGED <<serverHistory, syncResponses, clientState, clientAt, resolvedAt,
                   updatesSent>>
    /\ UNCHANGED outsideSync

\* /api/state: POST answers with the state after setState(partial), GET with the
\* current state
SyncServerHandles(request) ==
    /\ syncRequests' = syncRequests \ {request}
    /\ serverHistory' =
          IF request.kind = "update"
          THEN Append(serverHistory,
                      setState(serverHistory[Len(serverHistory)], request.partial))
          ELSE serverHistory
    /\ syncResponses' = syncResponses \cup
            {[kind |-> request.kind, n |-> request.n, at |-> Len(serverHistory')]}
    /\ UNCHANGED <<clientState, clientAt, resolvedAt, updatesSent, pollsSent>>
    /\ UNCHANGED outsideSync

\* the continuation of fetchState or updateState after res.json(): the fields of the
\* response are copied into _state; an updateState call resolves
SyncResponseArrives(response) ==
    /\ syncResponses' = syncResponses \ {response}
    /\ clientState' = serverHistory[response.at]
    /\ clientAt' = response.at
    /\ resolvedAt' = IF response.kind = "update" /\ response.at > resolvedAt
                     THEN response.at ELSE resolvedAt
    /\ UNCHANGED <<serverHistory, syncRequests, updatesSent, pollsSent>>
    /\ UNCHANGED outsideSync

NextSync ==
    \/ \E partial \in SyncPartials : SyncUpdateState(partial)
    \/ SyncFetchState
    \/ \E request \in syncRequests : SyncServerHandles(request)
    \/ \E response \in syncResponses : SyncResponseArrives(response)

SpecSync == InitSync /\ [][NextSync]_vars

(***************************************************************************)
(* C35: once an updateState call has resolved on a client, the client's    *)
(* copy of the state never afterwards shows a state older than the one     *)
(* that call returned, even when a poll issued before the update completes *)
(* after it.                                                               *)
(***************************************************************************)
NeverOlderThanResolved ==
    resolvedAt \in Nat => clientAt >= resolvedAt

\* the same for the values shown: after a resolved update the client shows the state
\* of the server at that or a later moment
ShowsResolvedOrLater ==
    (resolvedAt \in Nat /\ resolvedAt > 0) =>
        \E at \in resolvedAt .. Len(serverHistory) : clientState = serverHistory[at]

\* one update only, resolved, and the client shows the state from before it: the
\* response of a poll the server answered first has arrived last
StalePollApplied ==
    /\ resolvedAt \in Nat
    /\ updatesSent = 1
    /\ clientAt < resolvedAt


(***************************************************************************)
(* animations/island-photos.ts: stop(), start() and setIslands() called    *)
(* between frames, while images chosen by addNewPhoto are still loading.   *)
(***************************************************************************)
MaxStopFrames == 2
MaxStopAdvances == 3

outsidePhotoStops ==
    <<clockVars, classifierVars, homographyVars, clientVars, calibrationVars, warpVars, shapeVars, goLiveVars, projectionVars, generatorVars, samVars, perspectiveVars, gpuVars, hbVars, spotVars, controlVars, syncVars, serverVars, maskVars, loopVars>>
outsideServer ==
    <<clockVars, photoVars, classifierVars, homographyVars, clientVars, calibrationVars, warpVars, shapeVars, goLiveVars, projectionVars, generatorVars, samVars, perspectiveVars, gpuVars, hbVars, spotVars, controlVars, syncVars, clearVars, maskVars, loopVars>>
outsideMasks ==
    <<clockVars, photoVars, classifierVars, homographyVars, clientVars, calibrationVars, warpVars, shapeVars, goLiveVars, projectionVars, generatorVars, samVars, perspectiveVars, gpuVars, hbVars, spotVars, controlVars, syncVars, clearVars, serverVars, loopVars>>
outsideLoops ==
    <<clockVars, photoVars, classifierVars, homographyVars, clientVars, calibrationVars, warpVars, shapeVars, goLiveVars, projectionVars, generatorVars, samVars, perspectiveVars, gpuVars, hbVars, spotVars, controlVars, syncVars, clearVars, serverVars, maskVars>>

\* stop()
PhotoStop ==
    /\ running' = [running EXCEPT ![PhotoLoop] = FALSE]
    /\ animationFrameId' = [animationFrameId EXCEPT ![PhotoLoop] = "null"]
    /\ photos' = [photos EXCEPT ![PhotoLoop] = <<>>]
    /\ clearedAt' = <<getElapsedTime>>
    /\ UNCHANGED <<wallClock, sharedClock, islands, lastElapsedTime, imagesLoaded,
                   pendingLoads, loopPrng, decisions, frames, advances>>
    /\ UNCHANGED outsidePhotoStops

\* start()
PhotoStart ==
    /\ IF running[PhotoLoop]
       THEN UNCHANGED <<running, lastElapsedTime, animationFrameId>>
       ELSE /\ running' = [running EXCEPT ![PhotoLoop] = TRUE]
            /\ lastElapsedTime' = [lastElapsedTime EXCEPT ![PhotoLoop] = 0]
            /\ animationFrameId' = [animationFrameId EXCEPT ![PhotoLoop] = "scheduled"]
    /\ UNCHANGED <<wallClock, sharedClock, islands, photos, imagesLoaded, pendingLoads,
                   loopPrng, decisions, frames, advances, clearedAt>>
    /\ UNCHANGED outsidePhotoStops

\* setIslands(islands)
PhotoSetIslands(list) ==
    /\ islands' = list
    /\ photos' = [photos EXCEPT ![PhotoLoop] = <<>>]
    /\ clearedAt' = <<getElapsedTime>>
    /\ UNCHANGED <<wallClock, sharedClock, running, animationFrameId, lastElapsedTime,
                   imagesLoaded, pendingLoads, loopPrng, decisions, frames, advances>>
    /\ UNCHANGED outsidePhotoStops

StopTimePasses(dt) == advances < MaxStopAdvances /\ elapse(dt)

StopFrame == frames[PhotoLoop] < MaxStopFrames /\ tick(PhotoLoop)

NextPhotoStops ==
    \/ \E dt \in PhotoTimeSteps : StopTimePasses(dt)
    \/ StopFrame
    \/ PhotoImageLoaded
    \/ PhotoStop
    \/ PhotoStart
    \/ \E list \in IslandSamples : PhotoSetIslands(list)

SpecPhotoStops == InitIslandPhotos /\ [][NextPhotoStops]_vars

(***************************************************************************)
(* C36: after stop() or setIslands() has cleared the island photos, no     *)
(* photo whose island and path were chosen before the clear is added       *)
(* afterwards.  A photo's startTime is the time of the frame that chose    *)
(* it: no photo held has a startTime before the last clear.                *)
(***************************************************************************)
NoPhotoFromBeforeClear ==
    clearedAt # <<>> =>
        \A i \in DOMAIN photos[PhotoLoop] :
            photos[PhotoLoop][i].startTime >= clearedAt[1]

\* the animation is stopped and holds a photo
StoppedWithPhoto ==
    /\ clearedAt # <<>>
    /\ ~running[PhotoLoop]
    /\ photos[PhotoLoop] # <<>>


(***************************************************************************)
(* server/state.ts: setState on the whole AppState.  Values that setState  *)
(* only copies (the homography, the masks, the clock) are named, not       *)
(* spelled out.                                                            *)
(***************************************************************************)
MaxSetStateCalls == 3

\* types.ts DEFAULT_STATE with every field
DefaultAppState ==
    [mode |-> "idle",
     calibration |-> [status |-> "none"],
     projection |-> [color |-> "#000000", masks |-> "none"]]

\* partial states as the pages post them
StatePartials ==
    { [mode |-> "projecting"],
      [mode |-> "calibrating", calibration |-> [status |-> "showing-markers"]],
      [calibration |-> [status |-> "complete", homography |-> "H"]],
      [calibration |-> <<>>],
      [projection |-> [color |-> "#FF0000"]],
      [projection |-> [masks |-> "wall and pom-poms", animationsEnabled |-> FALSE]],
      [animationClock |-> "clock 1", projection |-> [islandPhotosPlaying |-> FALSE]] }

InitServer ==
    /\ storedState = DefaultAppState
    /\ previousState = DefaultAppState
    /\ lastPartial = <<>>
    /\ setStateCalls = 0
    /\ IdleClock
    /\ IdlePhotos
    /\ IdleClassifier
    /\ IdleHomography
    /\ IdleClient
    /\ IdleCalibration
    /\ IdleWarp
    /\ IdleShapes
    /\ IdleGoLive
    /\ IdleProjection
    /\ IdleGenerator
    /\ IdleSam
    /\ IdlePerspective
    /\ IdleGpu
    /\ IdleHappyBirthday
    /\ IdleSpotlight
    /\ IdleControl
    /\ IdleSync
    /\ IdleClear
    /\ IdleMasks
    /\ IdleLoops

\* a call of setState(partial)
ServerSetState(partial) ==
    /\ setStateCalls < MaxSetStateCalls
    /\ setStateCalls' = setStateCalls + 1
    /\ previousState' = storedState
    /\ lastPartial' = partial
    /\ storedState' = setState(storedState, partial)
    /\ UNCHANGED outsideServer

NextServer == \E partial \in StatePartials : ServerSetState(partial)

SpecServer == InitServer /\ [][NextServer]_vars

\* the fields of the nested object k that the partial mentions
MentionedIn(partial, k) == IF k \in DOMAIN partial THEN DOMAIN partial[k] ELSE {}

(***************************************************************************)
(* C38: a state update leaves every field it does not mention unchanged:   *)
(* top-level fields absent from the partial, and fields of calibration and *)
(* of projection absent from the partial's nested objects, keep the values *)
(* they had before the update.                                             *)
(***************************************************************************)
UnmentionedFieldsKept ==
    (setStateCalls \in Nat /\ setStateCalls > 0) =>
        /\ \A k \in DOMAIN previousState \ DOMAIN lastPartial :
              /\ k \in DOMAIN storedState
              /\ storedState[k] = previousState[k]
        /\ \A k \in {"calibration", "projection"} :
              \A f \in DOMAIN previousState[k] \ MentionedIn(lastPartial, k) :
                  /\ f \in DOMAIN storedState[k]
                  /\ storedState[k][f] = previousState[k][f]

\* an update of two projection fields has kept the colour and the homography that
\* earlier updates had set
UnmentionedFieldsKeptWitness ==
    /\ setStateCalls = 3
    /\ DOMAIN lastPartial = {"projection"}
    /\ DOMAIN lastPartial.projection = {"masks", "animationsEnabled"}
    /\ storedState.projection.color = "#FF0000"
    /\ storedState.projection.animationsEnabled = FALSE
    /\ "homography" \in DOMAIN storedState.calibration
    /\ storedState.calibration.homography = "H"


(***************************************************************************)
(* Projection page: the effect that decodes the masks of the shared state  *)
(* into canvases, and render(), which pairs each canvas with the animation *)
(* state of a mask id.  A canvas is named by the image data it shows.      *)
(***************************************************************************)
MaxMaskChanges == 2

Mask(id, enabled, imageData) == [id |-> id, enabled |-> enabled, imageData |-> imageData]

\* mask lists of the shared state; a missing enabled flag reads as true
MaskListSamples ==
    { <<>>,
      <<Mask("wall-texture", TRUE, "image A")>>,
      <<Mask("wall-texture", TRUE, "image B")>>,
      <<Mask("wall-texture", FALSE, "image A")>>,
      <<Mask("pom-pom", TRUE, "image C")>>,
      <<Mask("wall-texture", TRUE, "image A"), Mask("pom-pom", TRUE, "image C")>> }

\* masks.map(m => `${m.id}:${m.enabled !== false}`).join(',')
maskStateOf(masks) == [i \in 1..Len(masks) |-> <<masks[i].id, masks[i].enabled>>]

\* the indices from i on that render() keeps: the mask is enabled and has a canvas
RECURSIVE activeIndices(_, _, _)
activeIndices(masks, canvases, i) ==
    IF i > Len(masks) THEN <<>>
    ELSE (IF masks[i].enabled /\ i <= Len(canvases) THEN <<i>> ELSE <<>>)
         \o activeIndices(masks, canvases, i + 1)

\* render(): activeMasks[k] with activeAnimStates[k], the animation state named by
\* the mask id it was looked up with
render(masks, canvases) ==
    LET active == activeIndices(masks, canvases, 1)
    IN  [k \in 1..Len(active) |->
            [canvas |-> canvases[active[k]], animation |-> masks[active[k]].id]]

InitMasks ==
    /\ sharedMasks = <<>>
    /\ maskEffectPending = FALSE
    /\ lastMaskState = <<>>
    /\ maskDecodes = {}
    /\ transformedMasks = <<>>
    /\ renderedPairs = <<>>
    /\ maskChanges = 0
    /\ IdleClock
    /\ IdlePhotos
    /\ IdleClassifier
    /\ IdleHomography
    /\ IdleClient
    /\ IdleCalibration
    /\ IdleWarp
    /\ IdleShapes
    /\ IdleGoLive
    /\ IdleProjection
    /\ IdleGenerator
    /\ IdleSam
    /\ IdlePerspective
    /\ IdleGpu
    /\ IdleHappyBirthday
    /\ IdleSpotlight
    /\ IdleControl
    /\ IdleSync
    /\ IdleClear
    /\ IdleServer
    /\ IdleLoops

\* a poll brings a different mask list; the effect is scheduled and runs before
\* anything else
MasksChange(masks) ==
    /\ maskChanges < MaxMaskChanges
    /\ ~maskEffectPending
    /\ masks # sharedMasks
    /\ maskChanges' = maskChanges + 1
    /\ sharedMasks' = masks
    /\ maskEffectPending' = TRUE
    /\ UNCHANGED <<lastMaskState, maskDecodes, transformedMasks, renderedPairs>>
    /\ UNCHANGED outsideMasks

\* $effect watching the masks
MasksEffect ==
    /\ maskEffectPending
    /\ maskEffectPending' = FALSE
    /\ LET currentState == maskStateOf(sharedMasks)
       IN  IF currentState # lastMaskState /\ Len(sharedMasks) > 0
           THEN /\ lastMaskState' = currentState
                /\ maskDecodes' = maskDecodes \cup
                       {[for |-> maskChanges,
                         canvases |-> [i \in 1..Len(sharedMasks) |->
                                          sharedMasks[i].imageData]]}
                /\ UNCHANGED <<transformedMasks, renderedPairs>>
           ELSE IF Len(sharedMasks) = 0 /\ Len(transformedMasks) > 0
           THEN /\ transformedMasks' = <<>>
                /\ renderedPairs' = render(sharedMasks, <<>>)
                /\ UNCHANGED <<lastMaskState, maskDecodes>>
           ELSE UNCHANGED <<lastMaskState, maskDecodes, transformedMasks, renderedPairs>>
    /\ UNCHANGED <<sharedMasks, maskChanges>>
    /\ UNCHANGED outsideMasks

\* Promise.all(...).then: every image of one call has been decoded
MasksDecoded(decode) ==
    /\ ~maskEffectPending
    /\ maskDecodes' = maskDecodes \ {decode}
    /\ transformedMasks' = decode.canvases
    /\ renderedPairs' = render(sharedMasks, decode.canvases)
    /\ UNCHANGED <<sharedMasks, maskEffectPending, lastMaskState, maskChanges>>
    /\ UNCHANGED outsideMasks

\* render() called by an animation's update callback
MasksRender ==
    /\ ~maskEffectPending
    /\ renderedPairs' = render(sharedMasks, transformedMasks)
    /\ UNCHANGED <<sharedMasks, maskEffectPending, lastMaskState, maskDecodes,
                   transformedMasks, maskChanges>>
    /\ UNCHANGED outsideMasks

NextMasks ==
    \/ \E masks \in MaskListSamples : MasksChange(masks)
    \/ MasksEffect
    \/ \E decode \in maskDecodes : MasksDecoded(decode)
    \/ MasksRender

SpecMasks == InitMasks /\ [][NextMasks]_vars

\* effects run, images finish decoding, animations keep calling render()
SpecMasksFair ==
    /\ SpecMasks
    /\ WF_vars(MasksEffect)
    /\ WF_vars(\E decode \in maskDecodes : MasksDecoded(decode))
    /\ WF_vars(MasksRender)

\* what render() draws once the page has caught up with the masks
renderedFrom(masks) ==
    render(masks, [i \in 1..Len(masks) |-> masks[i].imageData])

(***************************************************************************)
(* C37: whenever the mask list of the shared state changes, including a    *)
(* change of a mask's image data under the same id and enabled flag, the   *)
(* page eventually renders canvases decoded from the current image data,   *)
(* each paired with the animation state of its own mask id (unless the     *)
(* list has changed again by then).                                        *)
(***************************************************************************)
CurrentMasksRendered ==
    \A masks \in MaskListSamples :
        (sharedMasks = masks) ~> (sharedMasks # masks \/ renderedPairs = renderedFrom(masks))

\* the same, for lists that differ from the one before in ids or enabled flags and
\* are decoded with no other decoding under way
CurrentMasksRenderedWhenDecoded ==
    \A masks \in MaskListSamples :
        (sharedMasks = masks /\ maskDecodes = {} /\ maskEffectPending
            /\ (maskStateOf(masks) # lastMaskState \/ masks = <<>>))
        ~> (sharedMasks # masks \/ renderedPairs = renderedFrom(masks))

\* the image data of the wall mask has changed under the same id and flag; nothing is
\* scheduled or decoding, and the page shows the canvas of the old image data
StaleImageDataShown ==
    /\ sharedMasks = <<Mask("wall-texture", TRUE, "image B")>>
    /\ ~maskEffectPending
    /\ maskDecodes = {}
    /\ renderedPairs = <<[canvas |-> "image A", animation |-> "wall-texture"]>>


(***************************************************************************)
(* start(), stop() and the frame callback of the three animations that run *)
(* their own requestAnimationFrame loop: island-photos.ts (tick),          *)
(* happy-birthday.ts (tick) and spotlight.ts (animate).  What a frame      *)
(* computes matters here only through whether it calls onUpdate: the two   *)
(* tick functions call it when something changed, animate at every frame.  *)
(***************************************************************************)
MaxLoopFrames == 3
FrameLoops == {"island-photos", "happy-birthday", "spotlight"}

\* requestAnimationFrame: a handle that no pending callback has
loopRequestFrame(st) ==
    LET id == CHOOSE n \in 1..(Cardinality(st.frames) + 2) :
                  /\ n \notin st.frames
                  /\ <<n>> # st.animationFrameId
                  /\ \A m \in 1..(n - 1) : m \in st.frames \/ <<m>> = st.animationFrameId
    IN  [st EXCEPT !.animationFrameId = <<id>>, !.frames = @ \cup {id}]

\* stop() that leaves the frame callback with the browser
loopStopWithoutCancel(st) ==
    [st EXCEPT !.running = FALSE, !.animationFrameId = <<>>, !.callback = "stop"]

\* start(): nothing when running, else the flag and a first frame request
loopStart(st) ==
    IF st.running THEN st
    ELSE loopRequestFrame([st EXCEPT !.running = TRUE])

\* stop(): the flag, cancelAnimationFrame of the handle held, onUpdate([])
loopStop(st) ==
    [st EXCEPT !.running = FALSE,
               !.frames = IF st.animationFrameId # <<>> THEN @ \ {st.animationFrameId[1]}
                          ELSE @,
               !.animationFrameId = <<>>,
               !.callback = "stop"]

\* tick() / animate() as the frame callback: nothing when not running, else the
\* update, onUpdate if it is due, and the request of the next frame
loopFrame(st, needsUpdate) ==
    IF ~st.running THEN st
    ELSE loopRequestFrame([st EXCEPT !.callback = IF needsUpdate THEN "tick" ELSE @])

LoopState(a) ==
    [running |-> loopRunning[a], animationFrameId |-> loopFrameId[a],
     frames |-> loopFrames[a], callback |-> loopCallback[a]]

LoopBecomes(a, st) ==
    /\ loopRunning' = [loopRunning EXCEPT ![a] = st.running]
    /\ loopFrameId' = [loopFrameId EXCEPT ![a] = st.animationFrameId]
    /\ loopFrames' = [loopFrames EXCEPT ![a] = st.frames]
    /\ loopCallback' = [loopCallback EXCEPT ![a] = st.callback]

\* the three animations have been created
InitLoops ==
    /\ loopRunning = [a \in FrameLoops |-> FALSE]
    /\ loopFrameId = [a \in FrameLoops |-> <<>>]
    /\ loopFrames = [a \in FrameLoops |-> {}]
    /\ loopCallback = [a \in FrameLoops |-> "none"]
    /\ loopTicks = [a \in FrameLoops |-> 0]
    /\ IdleClock
    /\ IdlePhotos
    /\ IdleClassifier
    /\ IdleHomography
    /\ IdleClient
    /\ IdleCalibration
    /\ IdleWarp
    /\ IdleShapes
    /\ IdleGoLive
    /\ IdleProjection
    /\ IdleGenerator
    /\ IdleSam
    /\ IdlePerspective
    /\ IdleGpu
    /\ IdleHappyBirthday
    /\ IdleSpotlight
    /\ IdleControl
    /\ IdleSync
    /\ IdleClear
    /\ IdleServer
    /\ IdleMasks

LoopStart(a) ==
    /\ LoopBecomes(a, loopStart(LoopState(a)))
    /\ UNCHANGED loopTicks
    /\ UNCHANGED outsideLoops

LoopStop(a) ==
    /\ LoopBecomes(a, loopStop(LoopState(a)))
    /\ UNCHANGED loopTicks
    /\ UNCHANGED outsideLoops

\* the browser runs a frame callback it holds for animation a
LoopFrame(a, needsUpdate) ==
    /\ loopTicks[a] < MaxLoopFrames
    /\ a = "spotlight" => needsUpdate
    /\ \E f \in loopFrames[a] :
          \E st \in {[LoopState(a) EXCEPT !.frames = @ \ {f}]} :
             LoopBecomes(a, loopFrame(st, needsUpdate))
    /\ loopTicks' = [loopTicks EXCEPT ![a] = @ + 1]
    /\ UNCHANGED outsideLoops

NextLoops ==
    \/ \E a \in FrameLoops : LoopStart(a)
    \/ \E a \in FrameLoops : LoopStop(a)
    \/ \E a \in FrameLoops, needsUpdate \in BOOLEAN : LoopFrame(a, needsUpdate)

SpecLoops == InitLoops /\ [][NextLoops]_vars

(***************************************************************************)
(* C39: after stop() returns an animation issues no further onUpdate       *)
(* callback and holds no pending frame callback until start() is called    *)
(* again, and start() on a running animation schedules no second frame     *)
(* loop, for any order of start, stop and frame events.                    *)
(***************************************************************************)
StoppedLoopsAreQuiet ==
    loopTicks \in [FrameLoops -> Nat] =>
        \A a \in FrameLoops :
            /\ ~loopRunning[a] => loopFrames[a] = {} /\ loopCallback[a] # "tick"
            /\ Cardinality(loopFrames[a]) <= 1
            /\ loopRunning[a] => loopFrames[a] = {loopFrameId[a][1]}

\* every animation has run frames and was stopped, one of them started again since
StoppedLoopsAreQuietWitness ==
    /\ loopTicks \in [FrameLoops -> Nat]
    /\ \A a \in FrameLoops : loopTicks[a] >= 2
    /\ ~loopRunning["island-photos"] /\ loopCallback["island-photos"] = "stop"
    /\ ~loopRunning["happy-birthday"] /\ loopCallback["happy-birthday"] = "stop"
    /\ loopRunning["spotlight"] /\ loopCallback["spotlight"] = "stop"

\* the same on the full model of the spotlight animation, with setPomPoms and the
\* page's pom-pom effect among the events
SpotlightStoppedIsQuiet ==
    spotRunning \in BOOLEAN =>
        /\ ~spotRunning => spotFrames = {} /\ spotCallback # "animate"
        /\ Cardinality(spotFrames) <= 1
        /\ spotRunning => spotFrames = {spotFrameId[1]}

==============================================================================
